---- MODULE Spec2Model ----
(***************************************************************************)
(* HomePi security pipeline: the cooldown-gated garage trigger             *)
(* (flipper_controller.open_garage and its callers) and the camera frame   *)
(* buffer with its refresher (camera_manager).                             *)
(*                                                                         *)
(* `now` counts seconds of time.time().                                    *)
(***************************************************************************)
EXTENDS Integers, Sequences, FiniteSets, TLC

None == "None"

(***************************************************************************)
(* Bounds of the exploration.                                              *)
(***************************************************************************)
\* time.time() when the service starts (any value >= the cooldown: the real
\* clock is the Unix epoch, last_command_time starts at 0).
StartTime == 1000
\* The clock is read at StartTime + 100*a + b: multiples of 100 s plus the
\* offsets the 1 s and 12 s sleeps of open_garage produce.
MaxHundreds == 3
\* detections handed to handle_detection in one run
MaxDetections == 1
\* seconds the camera is watched
MaxSeconds == 10
\* the camera's clock is read every TickSeconds seconds
TickSeconds == 2
\* calls of camera.capture_array() in one run
MaxFrames == 2
\* capture threads started in one run
MaxThreads == 2
\* camera operations (init, stop, refresh, health check) called in one run
MaxOps == 2
\* get_frame calls in one run
MaxReads == 2
\* patrol API calls in one run
MaxPatrolOps == 4
\* resume timers created in one run
MaxTimers == 2
\* patrol threads started in one run
MaxLoops == 2
\* positions in a list, and the ids they are drawn from
MaxPositions == 4
\* calls of move_to, home and track_object in one run
MaxCtlOps == 3
\* passes of the detection loop in one run
MaxCycles == 3
\* add_position calls in one run
MaxAdds == 2
\* moves of the patrol loop that are followed on its route
MaxVisits == 7

(***************************************************************************)
(* Program constants (seconds).                                            *)
(***************************************************************************)
cooldown_seconds == 300
automation_cooldown == 300
LoaderSettleSeconds == 1
LongPressSeconds == 12

SleepOffsets == {0, LoaderSettleSeconds, LongPressSeconds,
                 LoaderSettleSeconds + LongPressSeconds}
TimePoints ==
    { StartTime + 100 * a + b : a \in 0..MaxHundreds, b \in SleepOffsets }

\* Flask serves each request on its own thread: two route threads, and the
\* detection thread of security_manager.
RouteCallers == {"webhook", "api"}
Callers == RouteCallers \cup {"detection"}

\* What send_command can return: None (not connected, or an exception),
\* a clean reply, a reply holding "error", a reply holding "error" and "fail".
Responses == {"none", "ok", "error", "error_fail"}
Truthy(r) == r # "none"
HasError(r) == r \in {"error", "error_fail"}
HasFail(r) == r = "error_fail"

\* class names the detector reports
ClassNames == {"car", "person", "truck"}

VARIABLES
    now,                \* time.time(), seconds
    flipper_enabled,    \* flipper_controller.flipper_enabled
    last_command_time,  \* flipper_controller.last_command_time
    last_my_car_time,   \* security_manager.last_my_car_time
    g,                  \* per caller: position in open_garage and its locals
    notifications,      \* messages handed to telegram_notifier
    saved,              \* detection records persisted by handle_detection
    last_ok_gate,       \* history: when the last successful call passed the gate
    retry_from          \* history: when, and with which last_command_time, a
                        \* call that had passed the gate returned False

garageVars == <<now, flipper_enabled, last_command_time, last_my_car_time, g,
                notifications, saved, last_ok_gate, retry_from>>

VARIABLES
    camera,                  \* camera_manager.camera: "None", "open", or an
                             \* object that never started ("unstarted")
    camera_enabled,
    frame_buffer,            \* a frame (its number), 0 for None
    frame_timestamp,         \* NoTime for None
    capture_thread,          \* the Thread object (its number), 0 for None
    capture_thread_running,
    refresh_lock,            \* the caller holding it, or "free"
    last_refresh_time,
    cap,                     \* the capture threads: position and locals
    caller,                  \* the threads calling into camera_manager
    captured,                \* calls of camera.capture_array() made
    ops,                     \* operations called
    reads,                   \* get_frame calls made
    latest,                  \* history: the frame of the most recent publish,
                             \* 0 once the buffer was cleared
    reinit_failed            \* history: the last refresh failed to reinitialize

camVars == <<camera, camera_enabled, frame_buffer, frame_timestamp,
             capture_thread, capture_thread_running, refresh_lock,
             last_refresh_time, cap, caller, captured, ops, reads,
             latest, reinit_failed>>

VARIABLES
    pantilt_enabled,         \* pantilt_controller.is_enabled()
    patrol_positions,        \* the ids of the positions, in list order
    patrol_active,
    interrupted,
    current_position_index,
    patrol_direction,
    interrupt_resume_timer,  \* the Timer object (its number), 0 for None
    timers,                  \* the Timer objects created
    pcall,                   \* the threads calling the patrol API
    loops,                   \* the patrol_loop threads started
    pops                     \* patrol API calls made

patrolVars == <<pantilt_enabled, patrol_positions, patrol_active, interrupted,
                current_position_index, patrol_direction,
                interrupt_resume_timer, timers, pcall, loops, pops>>

VARIABLES
    visited,                 \* the ids of the positions patrol_loop moved to
    assigned                 \* the ids add_position has assigned, in order

posVars == <<visited, assigned>>

VARIABLES
    current_pan,             \* in thousandths of a degree
    current_tilt,
    tracking_active,
    servo,                   \* the angles the last move_to sent to the servos
    move_calls,              \* calls of pantilt_controller.move_to made
    ctl,                     \* the thread calling the controller
    cops                     \* controller calls made

ctlVars == <<current_pan, current_tilt, tracking_active, servo, move_calls,
             ctl, cops>>

VARIABLES
    detector_enabled,        \* object_detector.detector_enabled
    service_up,              \* the inference service can be reached
    tracking_enabled,        \* security_config['pantilt']['tracking_enabled']
    tracking_target,         \* a bounding box, <<>> for None
    records,                 \* object_type of the rows save_detection wrote
    posted,                  \* frames posted to the inference service
    returned,                \* what detect_objects returned for a failed
                             \* request and for an answer of no detections
    cycles,                  \* passes of detection_loop begun
    det                      \* the detection thread and its current pass

detVars == <<detector_enabled, service_up, tracking_enabled, tracking_target,
             records, posted, returned, cycles, det>>

securityVars == <<posVars, ctlVars, detVars>>

vars == <<garageVars, camVars, patrolVars, securityVars>>

\* A caller outside open_garage. gate_time: time.time() read at the cooldown
\* check; tx_at: when this call started its transmission; sent: commands this
\* call wrote to the serial port; current_time: handle_detection's reading.
IdleCall == [pc |-> "idle", wake |-> 0, gate_time |-> 0, tx_at |-> 0,
             sent |-> 0, current_time |-> 0, result |-> "none"]

InitGarage ==
    /\ now = StartTime
    /\ flipper_enabled = TRUE
    /\ last_command_time = 0
    /\ last_my_car_time = 0
    /\ g = [t \in Callers |-> IdleCall]
    /\ notifications = <<>>
    /\ saved = 0
    /\ last_ok_gate = 0
    /\ retry_from = [last |-> -1, at |-> -1]

(***************************************************************************)
(* flipper_controller                                                      *)
(***************************************************************************)
\* (mutation of OnCooldown: the boundary is rejected too)
OnCooldown_inclusive(t, last) == t - last <= cooldown_seconds

\* The cooldown gate of open_garage: the call is rejected.
OnCooldown(t, last) == t - last < cooldown_seconds

\* The loader reply that sends open_garage to the older subghz commands.
LoaderFailed(r) == Truthy(r) /\ HasError(r) /\ HasFail(r)

\* A reply open_garage takes as a failed "subghz load" or "subghz tx".
CommandFailed(r) == ~Truthy(r) \/ HasError(r) \/ HasFail(r)

\* send_command: the command is written unless the Flipper is not connected.
send_command(n) == IF flipper_enabled THEN n + 1 ELSE n

\* The replies send_command can hand back: None when not connected.
Replies == IF flipper_enabled THEN Responses ELSE {"none"}

\* The timestamp open_garage records on success.
CommandTime(t) == now

\* History: a call that passed the gate returns False now; a retry meets the
\* last_command_time this call met, unless another call has returned meanwhile.
NoRetry == [last |-> -1, at |-> -1]
FailedCall(t) ==
    IF g[t].gate_time - last_command_time >= cooldown_seconds
      THEN [last |-> last_command_time, at |-> now]
      ELSE NoRetry

\* (mutation of ReturnFailed: the failed attempt is stamped as well)
ReturnFailed_stamped(t) ==
    /\ g' = [g EXCEPT ![t] = [IdleCall EXCEPT !.result = "failed",
                                              !.sent = send_command(g[t].sent)]]
    /\ retry_from' = FailedCall(t)
    /\ last_command_time' = now

\* open_garage returns False after the gate: last_command_time is not touched.
ReturnFailed(t) ==
    /\ g' = [g EXCEPT ![t] = [IdleCall EXCEPT !.result = "failed",
                                              !.sent = send_command(g[t].sent)]]
    /\ retry_from' = FailedCall(t)
    /\ UNCHANGED last_command_time

\* A route handler (webhook_detection, flipper_command) checks is_enabled()
\* and calls open_garage.
Request(t) ==
    /\ t \in RouteCallers
    /\ g[t].pc = "idle"
    /\ IF flipper_enabled
         THEN g' = [g EXCEPT ![t] = [IdleCall EXCEPT !.pc = "begin"]]
         ELSE g' = [g EXCEPT ![t] = [IdleCall EXCEPT !.result = "unavailable"]]
    /\ UNCHANGED <<now, flipper_enabled, last_command_time, last_my_car_time,
                   notifications, saved, last_ok_gate, retry_from>>

\* (mutation of Begin: the loader command is written before the gate)
Begin_sends_first(t) ==
    /\ g[t].pc = "begin"
    /\ IF ~flipper_enabled
         THEN g' = [g EXCEPT ![t].pc = "idle", ![t].result = "disabled"]
         ELSE IF OnCooldown(now, last_command_time)
           THEN g' = [g EXCEPT ![t].pc = "idle", ![t].result = "cooldown",
                               ![t].sent = send_command(@)]
           ELSE g' = [g EXCEPT ![t].pc = "loader", ![t].gate_time = now]
    /\ UNCHANGED <<now, flipper_enabled, last_command_time, last_my_car_time,
                   notifications, saved, last_ok_gate, retry_from>>

\* open_garage, the enabled check and the cooldown gate.
Begin(t) ==
    /\ g[t].pc = "begin"
    /\ IF ~flipper_enabled
         THEN g' = [g EXCEPT ![t].pc = "idle", ![t].result = "disabled"]
         ELSE IF OnCooldown(now, last_command_time)
           THEN g' = [g EXCEPT ![t].pc = "idle", ![t].result = "cooldown"]
           ELSE g' = [g EXCEPT ![t].pc = "loader", ![t].gate_time = now]
    /\ UNCHANGED <<now, flipper_enabled, last_command_time, last_my_car_time,
                   notifications, saved, last_ok_gate, retry_from>>

\* open_garage: "loader open SubGhz /ext/subghz/garage.sub" and its reply.
Loader(t) ==
    /\ g[t].pc = "loader"
    /\ \E r \in Replies :
        IF LoaderFailed(r)
          THEN g' = [g EXCEPT ![t].pc = "alt_load",
                              ![t].sent = send_command(@)]
          ELSE g' = [g EXCEPT ![t].pc = "settle",
                              ![t].wake = now + LoaderSettleSeconds,
                              ![t].sent = send_command(@)]
    /\ UNCHANGED <<now, flipper_enabled, last_command_time, last_my_car_time,
                   notifications, saved, last_ok_gate, retry_from>>

\* open_garage: after sleep(1), "input send long ok" starts the transmission.
Press(t) ==
    /\ g[t].pc = "settle"
    /\ now >= g[t].wake
    /\ g' = [g EXCEPT ![t].pc = "hold", ![t].wake = now + LongPressSeconds,
                      ![t].tx_at = IF flipper_enabled THEN now ELSE 0,
                      ![t].sent = send_command(@)]
    /\ UNCHANGED <<now, flipper_enabled, last_command_time, last_my_car_time,
                   notifications, saved, last_ok_gate, retry_from>>

\* open_garage: "subghz load ..." of the older firmware path.
AltLoad(t) ==
    /\ g[t].pc = "alt_load"
    /\ \E r \in Replies :
        IF CommandFailed(r)
          THEN ReturnFailed(t)
          ELSE /\ g' = [g EXCEPT ![t].pc = "alt_tx",
                                 ![t].sent = send_command(@)]
               /\ UNCHANGED <<last_command_time, retry_from>>
    /\ UNCHANGED <<now, flipper_enabled, last_my_car_time,
                   notifications, saved, last_ok_gate>>

\* open_garage: "subghz tx" of the older firmware path.
AltTx(t) ==
    /\ g[t].pc = "alt_tx"
    /\ \E r \in Replies :
        IF CommandFailed(r)
          THEN ReturnFailed(t)
          ELSE /\ g' = [g EXCEPT ![t].pc = "hold", ![t].wake = now,
                                 ![t].tx_at = now,
                                 ![t].sent = send_command(@)]
               /\ UNCHANGED <<last_command_time, retry_from>>
    /\ UNCHANGED <<now, flipper_enabled, last_my_car_time,
                   notifications, saved, last_ok_gate>>

\* open_garage: "loader close", last_command_time = time.time(), return True;
\* and, back in handle_detection, the bookkeeping of a successful opening.
Finish(t) ==
    /\ g[t].pc = "hold"
    /\ now >= g[t].wake
    /\ g' = [g EXCEPT ![t] = [IdleCall EXCEPT !.result = "ok",
                                              !.sent = send_command(g[t].sent)]]
    /\ last_command_time' = CommandTime(t)
    /\ last_ok_gate' = g[t].gate_time
    /\ retry_from' = NoRetry
    /\ IF t = "detection"
         THEN /\ last_my_car_time' = g[t].current_time
              /\ notifications' = Append(notifications, "garage_opened")
         ELSE UNCHANGED <<last_my_car_time, notifications>>
    /\ UNCHANGED <<now, flipper_enabled, saved>>

\* cleanup(): the serial connection is closed.
Cleanup ==
    /\ flipper_enabled
    /\ flipper_enabled' = FALSE
    /\ UNCHANGED <<now, last_command_time, last_my_car_time, g,
                   notifications, saved, last_ok_gate, retry_from>>

(***************************************************************************)
(* security_manager.handle_detection, the automation part                  *)
(***************************************************************************)
IsCar(class_name) == class_name \in {"car", "truck"}

\* car recognition is not wired in: every car is "unknown_car".
CarId(class_name) == IF IsCar(class_name) THEN "unknown_car" ELSE None

\* The cooldown gate of handle_detection: the automation may run.
HandlerGateOpen(t, last) == t - last > automation_cooldown

\* handle_detection for one accepted detection: the record is saved, and the
\* garage is opened for "my_car" when the handler's own cooldown allows it.
HandleDetection(t) ==
    /\ t = "detection"
    /\ g[t].pc = "idle"
    /\ saved < MaxDetections
    /\ \E class_name \in ClassNames :
        /\ saved' = saved + 1
        /\ IF /\ CarId(class_name) = "my_car"
              /\ HandlerGateOpen(now, last_my_car_time)
              /\ flipper_enabled
             THEN g' = [g EXCEPT ![t] = [IdleCall EXCEPT !.pc = "begin",
                                                      !.current_time = now]]
             ELSE g' = g
    /\ UNCHANGED <<now, flipper_enabled, last_command_time, last_my_car_time,
                   notifications, last_ok_gate, retry_from>>

\* Callers inside time.sleep, and callers between two sleeps.
Sleepers == {c \in Callers : g[c].pc \in {"settle", "hold"}}
Busy == \E c \in Callers : g[c].pc \in {"begin", "loader", "alt_load", "alt_tx"}

\* Time passes: to a later clock reading, or to the moment a sleep ends. On this
\* clock the serial replies and the statements between two sleeps take no time,
\* and a sleep ends when it is due.
Tick ==
    /\ ~Busy
    /\ \E t \in TimePoints \cup {g[c].wake : c \in Sleepers} :
        /\ t > now
        /\ \A c \in Sleepers : t <= g[c].wake
        /\ now' = t
    /\ UNCHANGED <<flipper_enabled, last_command_time, last_my_car_time, g,
                   notifications, saved, last_ok_gate, retry_from>>

(***************************************************************************)
(* camera_manager                                                          *)
(***************************************************************************)
NoTime == -1
NoAge == -1

REFRESH_COOLDOWN_SECONDS == 10
\* STALE_FRAME_THRESHOLD = 0.5 s, in half seconds
STALE_FRAME_THRESHOLD == 1
EmergencySeconds == 5
SettleSeconds == 2
WarmUpSeconds == 2
JoinTimeoutSeconds == 2
ReadyWaitSeconds == 5
max_consecutive_failures == 5

\* The threads that call into camera_manager: the service's main thread and a
\* health-check thread.
CamCallers == {"main", "health"}
CaptureThreads == 1..MaxThreads

\* max_stale_seconds as passed by a caller, in half seconds: 0 for None (the
\* default applies), or 2 s
MaxStaleChoices == {0, 4}

IdleCaller == [pc |-> "idle", op |-> "none", force |-> FALSE, max_stale |-> 0,
               age |-> NoAge, wake |-> 0, ret |-> "none", frame |-> 0]

NoThread == [pc |-> "none", deadline |-> 0, consecutive_failures |-> 0,
             frame |-> 0, capture_time |-> 0]

InitCamera ==
    /\ camera = "None"
    /\ camera_enabled = FALSE
    /\ frame_buffer = 0
    /\ frame_timestamp = NoTime
    /\ capture_thread = 0
    /\ capture_thread_running = FALSE
    /\ refresh_lock = "free"
    /\ last_refresh_time = 0
    /\ cap = [k \in CaptureThreads |-> NoThread]
    /\ caller = [c \in CamCallers |-> IdleCaller]
    /\ captured = 0
    /\ ops = 0
    /\ reads = 0
    /\ latest = 0
    /\ reinit_failed = FALSE

Max(a, b) == IF a >= b THEN a ELSE b

\* `if camera and camera_enabled`
CameraReady == camera # "None" /\ camera_enabled

\* get_frame_age, from a timestamp that is not None
FrameAge(ts) == Max(0, now - ts)

\* (mutation of IsStale: a buffer with no timestamp counts as fresh)
IsStale_ignores_missing(age, max_stale) == age # NoAge /\ 2 * age > max_stale

\* ensure_camera_fresh: the age is None, or exceeds max_stale (half seconds)
IsStale(age, max_stale) == age = NoAge \/ 2 * age > max_stale

\* refresh_camera: `emergency`
Emergency(last) == last # 0 /\ now - last > EmergencySeconds

\* refresh_camera: the refresh is skipped
RefreshSkipped(force, last) ==
    /\ ~force
    /\ ~Emergency(last)
    /\ last # 0
    /\ now - last < REFRESH_COOLDOWN_SECONDS

\* (mutation of LockFree: refresh_camera does not wait for the lock)
LockFree_always(lock) == TRUE

\* `with refresh_lock:` can be entered
LockFree(lock) == lock = "free"

\* A caller returns from its operation.
Return(c, value) == [IdleCaller EXCEPT !.ret = value]

\* The statement after stop_camera() or init_camera() in the calling function.
InRefresh(c) == caller[c].op \in {"refresh", "ensure"}

\* ensure_camera_fresh(max_stale_seconds, force=force) is called.
CallEnsure(c) ==
    /\ caller[c].pc = "idle"
    /\ ops < MaxOps
    /\ ops' = ops + 1
    /\ \E force \in BOOLEAN, max_stale \in MaxStaleChoices :
        caller' = [caller EXCEPT ![c] =
                     [IdleCaller EXCEPT !.pc = "e_enabled", !.op = "ensure",
                                        !.force = force,
                                        !.max_stale = max_stale]]
    /\ UNCHANGED <<camera, camera_enabled, frame_buffer, frame_timestamp,
                   capture_thread, capture_thread_running, refresh_lock,
                   last_refresh_time, cap, captured, latest, reinit_failed,
                   reads>>

\* ensure_camera_fresh: `if not camera_enabled: return False`, and the
\* default of max_stale_seconds.
EnsureEnabled(c) ==
    /\ caller[c].pc = "e_enabled"
    /\ IF ~camera_enabled
         THEN caller' = [caller EXCEPT ![c] = Return(c, "False")]
         ELSE caller' = [caller EXCEPT
                           ![c].pc = "e_age",
                           ![c].max_stale = IF @ = 0 THEN STALE_FRAME_THRESHOLD
                                                     ELSE @]
    /\ UNCHANGED <<camera, camera_enabled, frame_buffer, frame_timestamp,
                   capture_thread, capture_thread_running, refresh_lock,
                   last_refresh_time, cap, captured, ops, reads, latest,
                   reinit_failed>>

\* get_frame_age: `if frame_timestamp is None: return None`
Age1(c) ==
    /\ caller[c].pc = "e_age"
    /\ IF frame_timestamp = NoTime
         THEN caller' = [caller EXCEPT ![c].pc = "e_decide", ![c].age = NoAge]
         ELSE caller' = [caller EXCEPT ![c].pc = "e_age2"]
    /\ UNCHANGED <<camera, camera_enabled, frame_buffer, frame_timestamp,
                   capture_thread, capture_thread_running, refresh_lock,
                   last_refresh_time, cap, captured, ops, latest,
                   reinit_failed, reads>>

\* get_frame_age: `return max(0.0, time.time() - frame_timestamp)`, which
\* raises TypeError when the timestamp has been cleared since the test.
Age2(c) ==
    /\ caller[c].pc = "e_age2"
    /\ IF frame_timestamp = NoTime
         THEN caller' = [caller EXCEPT ![c] = Return(c, "raised")]
         ELSE caller' = [caller EXCEPT ![c].pc = "e_decide",
                                       ![c].age = FrameAge(frame_timestamp)]
    /\ UNCHANGED <<camera, camera_enabled, frame_buffer, frame_timestamp,
                   capture_thread, capture_thread_running, refresh_lock,
                   last_refresh_time, cap, captured, ops, latest,
                   reinit_failed, reads>>

\* ensure_camera_fresh: refresh_camera is called, or False is returned.
Decide(c) ==
    /\ caller[c].pc = "e_decide"
    /\ IF IsStale(caller[c].age, caller[c].max_stale)
         THEN caller' = [caller EXCEPT ![c].pc = "r_lock"]
         ELSE caller' = [caller EXCEPT ![c] = Return(c, "False")]
    /\ UNCHANGED <<camera, camera_enabled, frame_buffer, frame_timestamp,
                   capture_thread, capture_thread_running, refresh_lock,
                   last_refresh_time, cap, captured, ops, latest,
                   reinit_failed, reads>>

\* refresh_camera(force) is called.
CallRefresh(c) ==
    /\ caller[c].pc = "idle"
    /\ ops < MaxOps
    /\ ops' = ops + 1
    /\ \E force \in BOOLEAN :
        caller' = [caller EXCEPT ![c] =
                     [IdleCaller EXCEPT !.pc = "r_lock", !.op = "refresh",
                                        !.force = force]]
    /\ UNCHANGED <<camera, camera_enabled, frame_buffer, frame_timestamp,
                   capture_thread, capture_thread_running, refresh_lock,
                   last_refresh_time, cap, captured, latest, reinit_failed,
                   reads>>

\* refresh_camera: `with refresh_lock:` is entered and the cooldown is checked.
Acquire(c) ==
    /\ caller[c].pc = "r_lock"
    /\ LockFree(refresh_lock)
    /\ IF RefreshSkipped(caller[c].force, last_refresh_time)
         THEN /\ caller' = [caller EXCEPT ![c] = Return(c, "False")]
              /\ UNCHANGED refresh_lock
         ELSE /\ caller' = [caller EXCEPT ![c].pc = "s_begin"]
              /\ refresh_lock' = c
    /\ UNCHANGED <<camera, camera_enabled, frame_buffer, frame_timestamp,
                   capture_thread, capture_thread_running,
                   last_refresh_time, cap, captured, ops, latest,
                   reinit_failed, reads>>

\* stop_camera() is called directly (cleanup).
CallStop(c) ==
    /\ caller[c].pc = "idle"
    /\ ops < MaxOps
    /\ ops' = ops + 1
    /\ caller' = [caller EXCEPT ![c] =
                    [IdleCaller EXCEPT !.pc = "s_begin", !.op = "stop"]]
    /\ UNCHANGED <<camera, camera_enabled, frame_buffer, frame_timestamp,
                   capture_thread, capture_thread_running, refresh_lock,
                   last_refresh_time, cap, captured, latest, reinit_failed,
                   reads>>

\* stop_camera: the capture thread is told to stop and joined for 2 s.
StopBegin(c) ==
    /\ caller[c].pc = "s_begin"
    /\ IF capture_thread_running
         THEN /\ capture_thread_running' = FALSE
              /\ IF capture_thread # 0
                   THEN caller' = [caller EXCEPT
                                     ![c].pc = "s_join",
                                     ![c].wake = now + JoinTimeoutSeconds]
                   ELSE caller' = [caller EXCEPT ![c].pc = "s_clear"]
         ELSE /\ caller' = [caller EXCEPT ![c].pc = "s_clear"]
              /\ UNCHANGED capture_thread_running
    /\ UNCHANGED <<camera, camera_enabled, frame_buffer, frame_timestamp,
                   capture_thread, refresh_lock, last_refresh_time, cap,
                   captured, ops, latest, reinit_failed, reads>>

\* stop_camera: join returns, the thread has ended or the timeout has run out.
Join(c) ==
    /\ caller[c].pc = "s_join"
    /\ capture_thread = 0
         \/ cap[capture_thread].pc = "dead"
         \/ now >= caller[c].wake
    /\ caller' = [caller EXCEPT ![c].pc = "s_clear", ![c].wake = 0]
    /\ UNCHANGED <<camera, camera_enabled, frame_buffer, frame_timestamp,
                   capture_thread, capture_thread_running, refresh_lock,
                   last_refresh_time, cap, captured, ops, latest,
                   reinit_failed, reads>>

\* stop_camera: the frame buffer is cleared under frame_buffer_lock.
StopClear(c) ==
    /\ caller[c].pc = "s_clear"
    /\ frame_buffer' = 0
    /\ frame_timestamp' = NoTime
    /\ latest' = 0
    /\ caller' = [caller EXCEPT ![c].pc = "s_close"]
    /\ UNCHANGED <<camera, camera_enabled, capture_thread,
                   capture_thread_running, refresh_lock, last_refresh_time,
                   cap, captured, ops, reinit_failed, reads>>

\* stop_camera: camera.stop(), camera.close(); either may raise.
StopClose(c) ==
    /\ caller[c].pc = "s_close"
    /\ IF camera # "None"
         THEN /\ camera' = "None"
              /\ \E raises \in BOOLEAN :
                    camera_enabled' = IF raises THEN camera_enabled ELSE FALSE
         ELSE UNCHANGED <<camera, camera_enabled>>
    /\ IF InRefresh(c)
         THEN caller' = [caller EXCEPT ![c].pc = "r_clear"]
         ELSE caller' = [caller EXCEPT ![c] = Return(c, "None")]
    /\ UNCHANGED <<frame_buffer, frame_timestamp, capture_thread,
                   capture_thread_running, refresh_lock, last_refresh_time,
                   cap, captured, ops, latest, reinit_failed, reads>>

\* refresh_camera: the buffer is cleared once more, then time.sleep(2).
RefreshClear(c) ==
    /\ caller[c].pc = "r_clear"
    /\ frame_buffer' = 0
    /\ frame_timestamp' = NoTime
    /\ latest' = 0
    /\ caller' = [caller EXCEPT ![c].pc = "r_sleep",
                                ![c].wake = now + SettleSeconds]
    /\ UNCHANGED <<camera, camera_enabled, capture_thread,
                   capture_thread_running, refresh_lock, last_refresh_time,
                   cap, captured, ops, reinit_failed, reads>>

\* refresh_camera: the sleep is over, init_camera() is called.
RefreshWake(c) ==
    /\ caller[c].pc = "r_sleep"
    /\ now >= caller[c].wake
    /\ caller' = [caller EXCEPT ![c].pc = "i_open", ![c].wake = 0]
    /\ UNCHANGED <<camera, camera_enabled, frame_buffer, frame_timestamp,
                   capture_thread, capture_thread_running, refresh_lock,
                   last_refresh_time, cap, captured, ops, latest,
                   reinit_failed, reads>>

\* init_camera() is called directly (security_manager.init_security).
CallInit(c) ==
    /\ caller[c].pc = "idle"
    /\ ops < MaxOps
    /\ ops' = ops + 1
    /\ caller' = [caller EXCEPT ![c] =
                    [IdleCaller EXCEPT !.pc = "i_open", !.op = "init"]]
    /\ UNCHANGED <<camera, camera_enabled, frame_buffer, frame_timestamp,
                   capture_thread, capture_thread_running, refresh_lock,
                   last_refresh_time, cap, captured, latest, reinit_failed,
                   reads>>

\* An init_camera failure after which refresh_camera returns with
\* refresh_lock still held.
InitFailed_keeps_lock(c) ==
    /\ camera_enabled' = FALSE
    /\ caller' = [caller EXCEPT ![c] = Return(c, "False")]
    /\ UNCHANGED refresh_lock
    /\ IF InRefresh(c)
         THEN reinit_failed' = TRUE
         ELSE UNCHANGED reinit_failed

\* init_camera returns False: inside refresh_camera the failure is returned
\* and the lock released.
InitFailed(c) ==
    /\ camera_enabled' = FALSE
    /\ caller' = [caller EXCEPT ![c] = Return(c, "False")]
    /\ IF InRefresh(c)
         THEN refresh_lock' = "free" /\ reinit_failed' = TRUE
         ELSE UNCHANGED <<refresh_lock, reinit_failed>>

\* init_camera: Picamera2(), configure, start; then time.sleep(2).
InitOpen(c) ==
    /\ caller[c].pc = "i_open"
    /\ \E outcome \in {"ok", "open_fails", "start_fails"} :
        IF outcome = "ok"
          THEN /\ camera' = "open"
               /\ caller' = [caller EXCEPT ![c].pc = "i_warm",
                                           ![c].wake = now + WarmUpSeconds]
               /\ UNCHANGED <<camera_enabled, refresh_lock, reinit_failed>>
          ELSE /\ camera' = IF outcome = "open_fails" THEN camera
                                                      ELSE "unstarted"
               /\ InitFailed(c)
    /\ UNCHANGED <<frame_buffer, frame_timestamp, capture_thread,
                   capture_thread_running, last_refresh_time, cap, captured,
                   ops, latest, reads>>

\* The next Thread object.
NewThread == IF \E k \in CaptureThreads : cap[k].pc = "none"
               THEN CHOOSE k \in CaptureThreads :
                      cap[k].pc = "none" /\ \A j \in 1..(k - 1) : cap[j].pc # "none"
               ELSE 0

\* init_camera: camera_enabled = True, frame_timestamp = None, the capture
\* thread is started, True is returned; refresh_camera then stamps
\* last_refresh_time and leaves the lock.
InitEnable(c) ==
    /\ caller[c].pc = "i_warm"
    /\ now >= caller[c].wake
    /\ NewThread # 0
    /\ camera_enabled' = TRUE
    /\ frame_timestamp' = NoTime
    /\ capture_thread_running' = TRUE
    /\ capture_thread' = NewThread
    /\ cap' = [cap EXCEPT ![NewThread] =
                 [NoThread EXCEPT !.pc = "wait",
                                  !.deadline = now + ReadyWaitSeconds]]
    /\ caller' = [caller EXCEPT ![c] = Return(c, "True")]
    /\ IF InRefresh(c)
         THEN /\ last_refresh_time' = now
              /\ refresh_lock' = "free"
         ELSE UNCHANGED <<last_refresh_time, refresh_lock>>
    /\ reinit_failed' = FALSE
    /\ UNCHANGED <<camera, frame_buffer, captured, ops, latest, reads>>

\* (mutation of GetFrameRead: the reader takes the frame out of the buffer)
GetFrameRead_consumes(c) ==
    /\ caller[c].pc = "g_read"
    /\ caller' = [caller EXCEPT ![c] =
                    [IdleCaller EXCEPT !.ret = "frame",
                                       !.frame = frame_buffer]]
    /\ frame_buffer' = 0
    /\ UNCHANGED <<camera, camera_enabled, frame_timestamp,
                   capture_thread, capture_thread_running, refresh_lock,
                   last_refresh_time, cap, captured, ops, latest,
                   reinit_failed, reads>>

\* get_frame: `if not camera_enabled: return None`
CallGetFrame(c) ==
    /\ caller[c].pc = "idle"
    /\ reads < MaxReads
    /\ reads' = reads + 1
    /\ IF ~camera_enabled
         THEN caller' = [caller EXCEPT ![c] = Return(c, "None")]
         ELSE caller' = [caller EXCEPT ![c].op = "get_frame",
                                       ![c].pc = "g_read"]
    /\ UNCHANGED <<camera, camera_enabled, frame_buffer, frame_timestamp,
                   capture_thread, capture_thread_running, refresh_lock,
                   last_refresh_time, cap, captured, ops, latest,
                   reinit_failed>>

\* get_frame: under frame_buffer_lock, a copy of frame_buffer (or None).
GetFrameRead(c) ==
    /\ caller[c].pc = "g_read"
    /\ caller' = [caller EXCEPT ![c] =
                    [IdleCaller EXCEPT !.ret = "frame",
                                       !.frame = frame_buffer]]
    /\ UNCHANGED <<camera, camera_enabled, frame_buffer, frame_timestamp,
                   capture_thread, capture_thread_running, refresh_lock,
                   last_refresh_time, cap, captured, ops, latest,
                   reinit_failed, reads>>

(***************************************************************************)
(* _continuous_capture                                                     *)
(***************************************************************************)
\* The wait for the camera to be ready (up to 5 s).
WaitReady(k) ==
    /\ cap[k].pc = "wait"
    /\ CameraReady \/ now >= cap[k].deadline
    /\ cap' = [cap EXCEPT ![k].pc = IF CameraReady THEN "test" ELSE "dead",
                          ![k].deadline = 0]
    /\ UNCHANGED <<camera, camera_enabled, frame_buffer, frame_timestamp,
                   capture_thread, capture_thread_running, refresh_lock,
                   last_refresh_time, caller, captured, ops, latest,
                   reinit_failed, reads>>

\* The test capture: the thread returns when it raises.
TestCapture(k) ==
    /\ cap[k].pc = "test"
    /\ \E raises \in BOOLEAN :
        /\ camera = "open" \/ raises
        /\ cap' = [cap EXCEPT ![k].pc = IF raises THEN "dead" ELSE "loop"]
    /\ UNCHANGED <<camera, camera_enabled, frame_buffer, frame_timestamp,
                   capture_thread, capture_thread_running, refresh_lock,
                   last_refresh_time, caller, captured, ops, latest,
                   reinit_failed, reads>>

\* `while capture_thread_running:` and `if camera and camera_enabled:`
LoopHead(k) ==
    /\ cap[k].pc = "loop"
    /\ cap' = [cap EXCEPT ![k].pc =
                 IF ~capture_thread_running THEN "dead"
                 ELSE IF CameraReady THEN "capture" ELSE "loop"]
    /\ UNCHANGED <<camera, camera_enabled, frame_buffer, frame_timestamp,
                   capture_thread, capture_thread_running, refresh_lock,
                   last_refresh_time, caller, captured, ops, latest,
                   reinit_failed, reads>>

\* consecutive_failures after one more slow or failed capture
Counted(n) == IF n + 1 >= max_consecutive_failures THEN 0 ELSE n + 1

\* camera.capture_array() returns a frame (fast, or slower than 100 ms) or
\* raises. The local `frame` is bound to what the call returned, also when
\* the loop goes on to `continue`.
Capture(k) ==
    /\ cap[k].pc = "capture"
    /\ \E outcome \in {"fast", "slow", "error"} :
        /\ camera = "open" \/ outcome = "error"
        /\ captured < MaxFrames
        /\ captured' = captured + 1
        /\ IF outcome = "error"
             THEN cap' = [cap EXCEPT ![k].pc = "loop",
                                     ![k].consecutive_failures = Counted(@)]
             ELSE IF outcome = "slow"
                          /\ cap[k].consecutive_failures + 1
                               >= max_consecutive_failures
                    THEN cap' = [cap EXCEPT ![k].pc = "loop",
                                            ![k].consecutive_failures = 0,
                                            ![k].frame = captured + 1]
                    ELSE cap' = [cap EXCEPT
                                   ![k].pc = "publish",
                                   ![k].consecutive_failures =
                                       IF outcome = "slow" THEN @ + 1 ELSE 0,
                                   ![k].frame = captured + 1,
                                   ![k].capture_time = now]
    /\ UNCHANGED <<camera, camera_enabled, frame_buffer, frame_timestamp,
                   capture_thread, capture_thread_running, refresh_lock,
                   last_refresh_time, caller, ops, latest, reinit_failed,
                   reads>>

\* The frame and its capture time are stored under frame_buffer_lock.
Publish(k) ==
    /\ cap[k].pc = "publish"
    /\ frame_buffer' = cap[k].frame
    /\ frame_timestamp' = cap[k].capture_time
    /\ latest' = cap[k].frame
    /\ cap' = [cap EXCEPT ![k].pc = "loop", ![k].frame = 0,
                          ![k].capture_time = 0]
    /\ UNCHANGED <<camera, camera_enabled, capture_thread,
                   capture_thread_running, refresh_lock, last_refresh_time,
                   caller, captured, ops, reinit_failed, reads>>

\* A caller has a statement it can execute now.
CallerReady(c) ==
    \/ caller[c].pc \in {"e_enabled", "e_age", "e_age2", "e_decide", "s_begin", "s_clear",
                         "s_close", "r_clear", "i_open", "g_read"}
    \/ caller[c].pc = "r_lock" /\ LockFree(refresh_lock)
    \/ /\ caller[c].pc = "s_join"
       /\ \/ capture_thread = 0
          \/ cap[capture_thread].pc = "dead"
          \/ now >= caller[c].wake
    \/ caller[c].pc \in {"r_sleep", "i_warm"} /\ now >= caller[c].wake

\* A capture thread has a statement it can execute now;
\* camera.capture_array() in the loop is the one that may block.
ThreadReady(k) ==
    \/ cap[k].pc \in {"test", "publish"}
    \/ cap[k].pc = "wait" /\ (CameraReady \/ now >= cap[k].deadline)
    \/ cap[k].pc = "loop" /\ (~capture_thread_running \/ CameraReady)

\* Time passes. Statements take no time on this clock, except that a
\* sleep or a join ends when it is due and that camera.capture_array() may
\* take any time.
CamTick ==
    /\ now + TickSeconds <= StartTime + MaxSeconds
    /\ \A c \in CamCallers : ~CallerReady(c)
    /\ \A k \in CaptureThreads : ~ThreadReady(k)
    /\ now' = now + TickSeconds
    /\ UNCHANGED <<camVars, patrolVars, securityVars>>

garageRest == <<flipper_enabled, last_command_time, last_my_car_time, g,
               notifications, saved, last_ok_gate, retry_from>>

NextGarage ==
    \/ \E t \in Callers : Request(t) /\ UNCHANGED <<camVars, patrolVars, securityVars>>
    \/ \E t \in Callers : Begin(t) /\ UNCHANGED <<camVars, patrolVars, securityVars>>
    \/ \E t \in Callers : Loader(t) /\ UNCHANGED <<camVars, patrolVars, securityVars>>
    \/ \E t \in Callers : Press(t) /\ UNCHANGED <<camVars, patrolVars, securityVars>>
    \/ \E t \in Callers : AltLoad(t) /\ UNCHANGED <<camVars, patrolVars, securityVars>>
    \/ \E t \in Callers : AltTx(t) /\ UNCHANGED <<camVars, patrolVars, securityVars>>
    \/ \E t \in Callers : Finish(t) /\ UNCHANGED <<camVars, patrolVars, securityVars>>
    \/ \E t \in Callers : HandleDetection(t) /\ UNCHANGED <<camVars, patrolVars, securityVars>>
    \/ Cleanup /\ UNCHANGED <<camVars, patrolVars, securityVars>>
    \/ Tick /\ UNCHANGED <<camVars, patrolVars, securityVars>>

\* One caller at a time: a sequential series of open_garage calls.
NextGarageSeq ==
    \/ Request("webhook") /\ UNCHANGED <<camVars, patrolVars, securityVars>>
    \/ Begin("webhook") /\ UNCHANGED <<camVars, patrolVars, securityVars>>
    \/ Loader("webhook") /\ UNCHANGED <<camVars, patrolVars, securityVars>>
    \/ Press("webhook") /\ UNCHANGED <<camVars, patrolVars, securityVars>>
    \/ AltLoad("webhook") /\ UNCHANGED <<camVars, patrolVars, securityVars>>
    \/ AltTx("webhook") /\ UNCHANGED <<camVars, patrolVars, securityVars>>
    \/ Finish("webhook") /\ UNCHANGED <<camVars, patrolVars, securityVars>>
    \/ Cleanup /\ UNCHANGED <<camVars, patrolVars, securityVars>>
    \/ Tick /\ UNCHANGED <<camVars, patrolVars, securityVars>>

NextCamera ==
    \/ \E c \in CamCallers : CallEnsure(c) /\ UNCHANGED <<now, garageRest, patrolVars, securityVars>>
    \/ \E c \in CamCallers : EnsureEnabled(c) /\ UNCHANGED <<now, garageRest, patrolVars, securityVars>>
    \/ \E c \in CamCallers : Age1(c) /\ UNCHANGED <<now, garageRest, patrolVars, securityVars>>
    \/ \E c \in CamCallers : Age2(c) /\ UNCHANGED <<now, garageRest, patrolVars, securityVars>>
    \/ \E c \in CamCallers : Decide(c) /\ UNCHANGED <<now, garageRest, patrolVars, securityVars>>
    \/ \E c \in CamCallers : CallRefresh(c) /\ UNCHANGED <<now, garageRest, patrolVars, securityVars>>
    \/ \E c \in CamCallers : Acquire(c) /\ UNCHANGED <<now, garageRest, patrolVars, securityVars>>
    \/ \E c \in CamCallers : CallStop(c) /\ UNCHANGED <<now, garageRest, patrolVars, securityVars>>
    \/ \E c \in CamCallers : StopBegin(c) /\ UNCHANGED <<now, garageRest, patrolVars, securityVars>>
    \/ \E c \in CamCallers : Join(c) /\ UNCHANGED <<now, garageRest, patrolVars, securityVars>>
    \/ \E c \in CamCallers : StopClear(c) /\ UNCHANGED <<now, garageRest, patrolVars, securityVars>>
    \/ \E c \in CamCallers : StopClose(c) /\ UNCHANGED <<now, garageRest, patrolVars, securityVars>>
    \/ \E c \in CamCallers : RefreshClear(c) /\ UNCHANGED <<now, garageRest, patrolVars, securityVars>>
    \/ \E c \in CamCallers : RefreshWake(c) /\ UNCHANGED <<now, garageRest, patrolVars, securityVars>>
    \/ \E c \in CamCallers : CallInit(c) /\ UNCHANGED <<now, garageRest, patrolVars, securityVars>>
    \/ \E c \in CamCallers : InitOpen(c) /\ UNCHANGED <<now, garageRest, patrolVars, securityVars>>
    \/ \E c \in CamCallers : InitEnable(c) /\ UNCHANGED <<now, garageRest, patrolVars, securityVars>>
    \/ \E c \in CamCallers : CallGetFrame(c) /\ UNCHANGED <<now, garageRest, patrolVars, securityVars>>
    \/ \E c \in CamCallers : GetFrameRead(c) /\ UNCHANGED <<now, garageRest, patrolVars, securityVars>>
    \/ \E k \in CaptureThreads : WaitReady(k) /\ UNCHANGED <<now, garageRest, patrolVars, securityVars>>
    \/ \E k \in CaptureThreads : TestCapture(k) /\ UNCHANGED <<now, garageRest, patrolVars, securityVars>>
    \/ \E k \in CaptureThreads : LoopHead(k) /\ UNCHANGED <<now, garageRest, patrolVars, securityVars>>
    \/ \E k \in CaptureThreads : Capture(k) /\ UNCHANGED <<now, garageRest, patrolVars, securityVars>>
    \/ \E k \in CaptureThreads : Publish(k) /\ UNCHANGED <<now, garageRest, patrolVars, securityVars>>
    \/ CamTick /\ UNCHANGED <<garageRest, patrolVars, securityVars>>

\* No position has been visited or added in this run.
InitPositions ==
    /\ visited = <<>>
    /\ assigned = <<>>

(***************************************************************************)
(* pantilt_controller                                                      *)
(*                                                                         *)
(* Angles are kept in thousandths of a degree; the boxes tracked are such  *)
(* that every product and quotient of track_object is a whole number of    *)
(* them.                                                                   *)
(***************************************************************************)
pan_limits == <<-90, 90>>
tilt_limits == <<-45, 45>>
home_position == <<0, 0>>
tracking_speed == 5
frame_width == 1920
frame_height == 1080

Milli == 1000

Min(a, b) == IF a <= b THEN a ELSE b
Abs(a) == IF a >= 0 THEN a ELSE -a

\* int(num / den) for den > 0: the fraction is cut off towards zero.
Trunc(num, den) == IF num >= 0 THEN num \div den ELSE -((-num) \div den)

\* A clamp that lets every angle through.
Clamp_none(lo, hi, x) == x

\* max(limits[0], min(limits[1], x))
Clamp(lo, hi, x) == Max(lo, Min(hi, x))

NoServo == [pan |-> {}, tilt |-> {}]
IdleCtl == [pc |-> "idle", bbox |-> <<0, 0, 0, 0>>, ret |-> "none"]

InitController ==
    /\ current_pan = 0
    /\ current_tilt = 0
    /\ tracking_active = FALSE
    /\ servo = NoServo
    /\ move_calls = 0
    /\ ctl = IdleCtl
    /\ cops = 0

\* move_to(pan, tilt, speed) on an enabled pan-tilt: the clamped target, the
\* angles written to the servos on the way, and the position recorded.
\* ok = FALSE: a servo write raises, here the first, and the except branch
\* returns False with the recorded position as it was.
MoveTo(pan, tilt, speed, ok) ==
    LET p == Clamp(pan_limits[1] * Milli, pan_limits[2] * Milli, pan)
        t == Clamp(tilt_limits[1] * Milli, tilt_limits[2] * Milli, tilt)
        far == Max(Abs(p - current_pan), Abs(t - current_tilt))
        steps == IF far > speed * Milli THEN far \div (speed * Milli) ELSE 1
        pans == IF steps > 1
                  THEN {Trunc(current_pan * steps + (p - current_pan) * i,
                              steps * Milli) : i \in 0..steps}
                  ELSE {Trunc(p, Milli)}
        tilts == IF steps > 1
                   THEN {Trunc(current_tilt * steps + (t - current_tilt) * i,
                               steps * Milli) : i \in 0..steps}
                   ELSE {Trunc(t, Milli)}
    IN IF ok
         THEN [pan |-> p, tilt |-> t,
               servo |-> [pan |-> pans, tilt |-> tilts], ret |-> "True"]
         ELSE [pan |-> current_pan, tilt |-> current_tilt,
               servo |-> NoServo, ret |-> "False"]

\* The call of move_to as the callers see it: nothing happens on a
\* pan-tilt that is not enabled.
CallMoveTo(pan, tilt, speed, ok) ==
    IF pantilt_enabled
      THEN LET m == MoveTo(pan, tilt, speed, ok)
           IN /\ current_pan' = m.pan
              /\ current_tilt' = m.tilt
              /\ servo' = m.servo
              /\ move_calls' = move_calls + 1
      ELSE /\ UNCHANGED <<current_pan, current_tilt, servo>>
           /\ move_calls' = move_calls + 1

MoveToResult(ok) ==
    IF pantilt_enabled /\ ok THEN "True" ELSE "False"

\* The angles and speeds callers ask for, in degrees.
RequestedPans == {-120, -37, 0, 64, 200}
RequestedTilts == {-60, 0, 12, 100}
Speeds == {1, 5, 10}

\* Bounding boxes (x1, y1, x2, y2) in a 1920 x 1080 frame: centred, 0.05
\* off centre on both axes, 0.1 off centre to the right, half way to the
\* right and upper edge, and at the left and lower edge.
Boxes == {<<910, 515, 1010, 565>>, <<958, 542, 1058, 592>>,
          <<1006, 515, 1106, 565>>, <<1390, 220, 1490, 320>>,
          <<0, 1000, 96, 1052>>}

\* A thread calls move_to.
CtlMoveTo ==
    /\ ctl.pc = "idle"
    /\ cops < MaxCtlOps
    /\ cops' = cops + 1
    /\ \E pan \in RequestedPans, tilt \in RequestedTilts, speed \in Speeds,
          ok \in BOOLEAN :
          /\ CallMoveTo(pan * Milli, tilt * Milli, speed, ok)
          /\ ctl' = [IdleCtl EXCEPT !.ret = MoveToResult(ok)]
    /\ UNCHANGED tracking_active

\* home(): move_to(home_position, speed=3)
CtlHome ==
    /\ ctl.pc = "idle"
    /\ cops < MaxCtlOps
    /\ cops' = cops + 1
    /\ \E ok \in BOOLEAN :
          /\ CallMoveTo(home_position[1] * Milli, home_position[2] * Milli,
                        3, ok)
          /\ ctl' = [IdleCtl EXCEPT !.ret = MoveToResult(ok)]
    /\ UNCHANGED tracking_active

\* pantilt_controller.track_object: `if not pantilt_enabled: return False`,
\* then tracking_active = True.
TrackBegin ==
    /\ ctl.pc = "idle"
    /\ cops < MaxCtlOps
    /\ cops' = cops + 1
    /\ \E bbox \in Boxes :
          IF ~pantilt_enabled
            THEN /\ ctl' = [IdleCtl EXCEPT !.ret = "False"]
                 /\ UNCHANGED tracking_active
            ELSE /\ ctl' = [pc |-> "track", bbox |-> bbox, ret |-> "none"]
                 /\ tracking_active' = TRUE
    /\ UNCHANGED <<current_pan, current_tilt, servo, move_calls>>

\* The offset of the box's centre from the frame's centre, as a fraction
\* num / den of half the frame: ((x1 + x2) / 2 - w / 2) / (w / 2).
OffsetX(bbox) == [num |-> bbox[1] + bbox[3] - frame_width, den |-> frame_width]
OffsetY(bbox) == [num |-> bbox[2] + bbox[4] - frame_height, den |-> frame_height]

\* A deadzone nothing falls into.
InDeadzone_never(off) == FALSE

\* abs(offset) < 0.1
InDeadzone(off) == 10 * Abs(off.num) < off.den

\* pantilt_controller.track_object from the offsets on: the deadzone, the
\* adjustments, move_to(new_pan, new_tilt, speed=10), and the finally
\* clause.
TrackEnd ==
    /\ ctl.pc = "track"
    /\ LET x == OffsetX(ctl.bbox)
           y == OffsetY(ctl.bbox)
       IN IF InDeadzone(x) /\ InDeadzone(y)
            THEN /\ ctl' = [IdleCtl EXCEPT !.ret = "True"]
                 /\ UNCHANGED <<current_pan, current_tilt, servo, move_calls>>
            ELSE \E ok \in BOOLEAN :
                   /\ CallMoveTo(
                         current_pan + (x.num * tracking_speed * Milli) \div x.den,
                         current_tilt - (y.num * tracking_speed * Milli) \div y.den,
                         10, ok)
                   /\ ctl' = [IdleCtl EXCEPT !.ret = MoveToResult(ok)]
    /\ tracking_active' = FALSE
    /\ UNCHANGED cops

(***************************************************************************)
(* object_detector and security_manager: the detection loop                *)
(***************************************************************************)
classes_of_interest == {"car", "person"}

\* The detection thread between two passes. Of the pass: frame, whether
\* line 392 found a frame; result, what detect_objects returned; filtered,
\* the detections handle_detection accepted; i, the one being processed;
\* saved, the rows written; tracked, the boxes track_object was called
\* with; moves, the move_to calls; raised, the pass ended in the except
\* branch of the loop.
IdleDet == [pc |-> "idle", frame |-> FALSE, result |-> <<>>,
            filtered |-> <<>>, i |-> 0, saved |-> 0, tracked |-> <<>>,
            moves |-> 0, raised |-> FALSE]

DetectionAtRest(tracking) ==
    /\ detector_enabled = TRUE
    /\ service_up = TRUE
    /\ tracking_enabled = tracking
    /\ tracking_target = <<>>
    /\ records = <<>>
    /\ posted = 0
    /\ returned = {}
    /\ cycles = 0
    /\ det = IdleDet

InitDetection == DetectionAtRest(TRUE)

Detection(name, bbox) == [class_name |-> name, bbox |-> bbox]

\* What the inference service answers with status 200.
DetectionLists ==
    {<<>>,
     <<Detection("cat", <<1390, 220, 1490, 320>>)>>,
     <<Detection("person", <<910, 515, 1010, 565>>)>>,
     <<Detection("person", <<958, 542, 1058, 592>>)>>,
     <<Detection("cat", <<910, 515, 1010, 565>>),
       Detection("car", <<1390, 220, 1490, 320>>),
       Detection("person", <<958, 542, 1058, 592>>)>>}

\* A handler that accepts every detection.
Accepted_all(detections) == detections

\* [d for d in detections if d['class_name'] in classes_of_interest]
Accepted(detections) ==
    SelectSeq(detections, LAMBDA x : x.class_name \in classes_of_interest)

\* The capture thread stores a frame; refresh_camera or stop_camera clears
\* the buffer.
BufferPublished ==
    /\ frame_buffer = 0
    /\ frame_buffer' = 1
    /\ frame_timestamp' = now
    /\ latest' = 1
    /\ UNCHANGED <<camera, camera_enabled, capture_thread,
                   capture_thread_running, refresh_lock, last_refresh_time,
                   cap, caller, captured, ops, reinit_failed, reads>>

BufferCleared ==
    /\ frame_buffer # 0
    /\ frame_buffer' = 0
    /\ frame_timestamp' = NoTime
    /\ latest' = 0
    /\ UNCHANGED <<camera, camera_enabled, capture_thread,
                   capture_thread_running, refresh_lock, last_refresh_time,
                   cap, caller, captured, ops, reinit_failed, reads>>

\* The inference service goes away or comes back.
ServiceChange ==
    /\ service_up' = ~service_up
    /\ UNCHANGED <<detector_enabled, tracking_enabled, tracking_target,
                   records, posted, returned, cycles, det>>

\* detection_loop: frame = camera_manager.get_frame(); without a frame the
\* pass ends in the sleep.
DetFrame ==
    /\ det.pc = "idle"
    /\ cycles < MaxCycles
    /\ cycles' = cycles + 1
    /\ det' = IF frame_buffer = 0
                THEN IdleDet
                ELSE [IdleDet EXCEPT !.pc = "detect", !.frame = TRUE]
    /\ UNCHANGED <<detector_enabled, service_up, tracking_enabled,
                   tracking_target, records, posted, returned>>

\* How a request to the service can end.
Outcomes ==
    IF service_up THEN {"ok", "timeout", "status", "exception"}
                  ELSE {"connection_error", "timeout"}

\* detect_objects, and the loop's `if detections: ... else:
\* tracking_target = None`. A disabled detector returns [] at once; a
\* request that fails returns [], and ConnectionError disables the
\* detector as well.
DetDetect ==
    /\ det.pc = "detect"
    /\ \E outcome \in Outcomes, answer \in DetectionLists :
         LET result == IF detector_enabled /\ outcome = "ok"
                         THEN answer ELSE <<>>
             failed == ~detector_enabled \/ outcome # "ok"
         IN /\ posted' = IF detector_enabled THEN posted + 1 ELSE posted
            /\ detector_enabled' =
                  IF detector_enabled /\ outcome = "connection_error"
                    THEN FALSE ELSE detector_enabled
            /\ returned' =
                  IF failed \/ answer = <<>>
                    THEN returned \cup {[failed |-> failed, result |-> result]}
                    ELSE returned
            /\ IF result # <<>>
                 THEN /\ det' = [det EXCEPT !.pc = "filter",
                                            !.result = result]
                      /\ UNCHANGED tracking_target
                 ELSE /\ det' = [det EXCEPT !.pc = "idle"]
                      /\ tracking_target' = <<>>
    /\ UNCHANGED <<service_up, tracking_enabled, records, cycles>>

\* handle_detection up to the loop over the accepted detections.
DetFilter ==
    /\ det.pc = "filter"
    /\ LET filtered == Accepted(det.result)
       IN IF filtered = <<>>
            THEN /\ det' = [det EXCEPT !.pc = "idle"]
                 /\ tracking_target' = <<>>
            ELSE /\ det' = [det EXCEPT !.pc = "snapshot",
                                       !.filtered = filtered, !.i = 1]
                 /\ UNCHANGED tracking_target
    /\ UNCHANGED <<detector_enabled, service_up, tracking_enabled, records,
                   posted, returned, cycles>>

\* handle_detection on one accepted detection. With a frame in the buffer
\* camera_manager.save_frame is called; camera_manager has no such
\* function, the AttributeError leaves handle_detection and is caught by
\* the loop. Without a frame the row is written by save_detection.
DetSnapshot ==
    /\ det.pc = "snapshot"
    /\ IF frame_buffer # 0
         THEN /\ det' = [det EXCEPT !.pc = "idle", !.raised = TRUE]
              /\ UNCHANGED records
         ELSE /\ records' = Append(records, det.filtered[det.i].class_name)
              /\ det' = [det EXCEPT !.saved = @ + 1,
                                    !.i = @ + 1,
                                    !.pc = IF det.i = Len(det.filtered)
                                             THEN "track" ELSE "snapshot"]
    /\ UNCHANGED <<detector_enabled, service_up, tracking_enabled,
                   tracking_target, posted, returned, cycles>>

\* handle_detection's last step: the tracking target is the first accepted
\* box, and security_manager.track_object moves the pan-tilt by
\* (error / frame size) * 20 degrees if the pan-tilt is enabled and a
\* frame is there.
DetTrack ==
    /\ det.pc = "track"
    /\ IF tracking_enabled
         THEN LET bbox == det.filtered[1].bbox
                  x == OffsetX(bbox)
                  y == OffsetY(bbox)
              IN /\ tracking_target' = bbox
                 /\ IF pantilt_enabled /\ frame_buffer # 0
                      THEN /\ \E ok \in BOOLEAN :
                                CallMoveTo(
                                  current_pan + (x.num * 10 * Milli) \div x.den,
                                  current_tilt - (y.num * 10 * Milli) \div y.den,
                                  tracking_speed, ok)
                           /\ det' = [det EXCEPT !.pc = "idle",
                                                 !.tracked = <<bbox>>,
                                                 !.moves = @ + 1]
                      ELSE /\ det' = [det EXCEPT !.pc = "idle",
                                                 !.tracked = <<bbox>>]
                           /\ UNCHANGED <<current_pan, current_tilt, servo,
                                          move_calls>>
         ELSE /\ det' = [det EXCEPT !.pc = "idle"]
              /\ UNCHANGED <<tracking_target, current_pan, current_tilt,
                             servo, move_calls>>
    /\ UNCHANGED <<detector_enabled, service_up, tracking_enabled, records,
                   posted, returned, cycles, tracking_active, ctl, cops>>

InitSecurity == InitPositions /\ InitController /\ InitDetection

(***************************************************************************)
(* pantilt_patrol                                                          *)
(***************************************************************************)
interrupt_resume_delay == 5

\* The threads that call the patrol API: Flask serves each request on its
\* own thread.
PatrolCallers == {"p1", "p2"}
Timers == 1..MaxTimers
PatrolLoops == 1..MaxLoops

IdlePatrolCall == [pc |-> "idle", op |-> "none", ret |-> "none"]
NoTimer == [state |-> "none", started |-> FALSE, due |-> 0]
NoLoop == [pc |-> "none", wake |-> 0]

\* The position lists an installation may have saved (ids only).
SavedPositions == {<<>>, <<1>>, <<1, 2>>}

\* The module as imported, and once init_patrol has loaded the positions
\* and the pan-tilt has or has not come up.
PatrolAtRest(enabled, positions) ==
    /\ pantilt_enabled = enabled
    /\ patrol_positions = positions
    /\ patrol_active = FALSE
    /\ interrupted = FALSE
    /\ current_position_index = 0
    /\ patrol_direction = 1
    /\ interrupt_resume_timer = 0
    /\ timers = [i \in Timers |-> NoTimer]
    /\ pcall = [c \in PatrolCallers |-> IdlePatrolCall]
    /\ loops = [k \in PatrolLoops |-> NoLoop]
    /\ pops = 0

InitPatrol == PatrolAtRest(FALSE, <<>>)

InitPatrolLoaded ==
    /\ InitGarage
    /\ InitCamera
    /\ InitSecurity
    /\ \E enabled \in BOOLEAN, positions \in SavedPositions :
          PatrolAtRest(enabled, positions)

\* A patrol API call returns.
PatrolReturn(value) == [IdlePatrolCall EXCEPT !.ret = value]

\* The next object of a class whose instances are numbered: the first
\* unused slot, 0 when none is left.
FirstUnused(used, all) ==
    IF all \ used = {} THEN 0
    ELSE CHOOSE i \in all \ used : \A j \in all \ used : i <= j

NewTimer == FirstUnused({i \in Timers : timers[i].state # "none"}, Timers)
NewLoop == FirstUnused({k \in PatrolLoops : loops[k].pc # "none"}, PatrolLoops)

\* A cancel() that leaves the timer as it is.
Cancelled_never(tm) == tm

\* Timer.cancel(): the finished event is set; a timer that has not run its
\* function yet never will.
Cancelled(tm) ==
    IF tm.state \in {"created", "pending"}
      THEN [tm EXCEPT !.state = "cancelled"]
      ELSE tm

\* Calls in progress of API function op.
InCall(op) == {c \in PatrolCallers : pcall[c].op = op}

\* A patrol API function is called (while the run has timer and thread
\* objects left for it).
CallPatrol(c) ==
    /\ pcall[c].pc = "idle"
    /\ pops < MaxPatrolOps
    /\ pops' = pops + 1
    /\ \E op \in {"start", "stop", "interrupt"} :
         /\ op = "interrupt" =>
               Cardinality({i \in Timers : timers[i].state # "none"})
                  + Cardinality(InCall("interrupt")) < MaxTimers
         /\ op = "start" =>
               Cardinality({k \in PatrolLoops : loops[k].pc # "none"})
                  + Cardinality(InCall("start")) < MaxLoops
         /\ pcall' = [pcall EXCEPT ![c] = [pc |-> op, op |-> op, ret |-> "none"]]
    /\ UNCHANGED <<pantilt_enabled, patrol_positions, patrol_active,
                   interrupted, current_position_index, patrol_direction,
                   interrupt_resume_timer, timers, loops>>

\* start_patrol: the three early returns.
StartCheck(c) ==
    /\ pcall[c].pc = "start"
    /\ pcall' = [pcall EXCEPT ![c] =
                   IF ~pantilt_enabled THEN PatrolReturn("False")
                   ELSE IF patrol_positions = <<>> THEN PatrolReturn("False")
                   ELSE IF patrol_active THEN PatrolReturn("True")
                   ELSE [@ EXCEPT !.pc = "start_reset"]]
    /\ UNCHANGED <<pantilt_enabled, patrol_positions, patrol_active,
                   interrupted, current_position_index, patrol_direction,
                   interrupt_resume_timer, timers, loops, pops>>

\* start_patrol: "Reset to start". `interrupted` is not among the names the
\* function declares global, so `interrupted = False` binds a local.
StartReset(c) ==
    /\ pcall[c].pc = "start_reset"
    /\ current_position_index' = 0
    /\ patrol_direction' = 1
    /\ pcall' = [pcall EXCEPT ![c].pc = "start_thread"]
    /\ UNCHANGED <<pantilt_enabled, patrol_positions, patrol_active,
                   interrupted, interrupt_resume_timer, timers, loops, pops>>

\* start_patrol: patrol_active = True, the patrol thread is started, True
\* is returned.
StartThread(c) ==
    /\ pcall[c].pc = "start_thread"
    /\ NewLoop # 0
    /\ patrol_active' = TRUE
    /\ loops' = [loops EXCEPT ![NewLoop] = [pc |-> "top", wake |-> 0]]
    /\ pcall' = [pcall EXCEPT ![c] = PatrolReturn("True")]
    /\ UNCHANGED <<pantilt_enabled, patrol_positions, interrupted,
                   current_position_index, patrol_direction,
                   interrupt_resume_timer, timers, pops>>

\* stop_patrol: `if not patrol_active: return False`
StopCheck(c) ==
    /\ pcall[c].pc = "stop"
    /\ pcall' = [pcall EXCEPT ![c] =
                   IF ~patrol_active THEN PatrolReturn("False")
                   ELSE [@ EXCEPT !.pc = "stop_active"]]
    /\ UNCHANGED <<pantilt_enabled, patrol_positions, patrol_active,
                   interrupted, current_position_index, patrol_direction,
                   interrupt_resume_timer, timers, loops, pops>>

\* stop_patrol: patrol_active = False
StopActive(c) ==
    /\ pcall[c].pc = "stop_active"
    /\ patrol_active' = FALSE
    /\ pcall' = [pcall EXCEPT ![c].pc = "stop_interrupted"]
    /\ UNCHANGED <<pantilt_enabled, patrol_positions, interrupted,
                   current_position_index, patrol_direction,
                   interrupt_resume_timer, timers, loops, pops>>

\* stop_patrol: interrupted = False
StopInterrupted(c) ==
    /\ pcall[c].pc = "stop_interrupted"
    /\ interrupted' = FALSE
    /\ pcall' = [pcall EXCEPT ![c].pc = "stop_cancel"]
    /\ UNCHANGED <<pantilt_enabled, patrol_positions, patrol_active,
                   current_position_index, patrol_direction,
                   interrupt_resume_timer, timers, loops, pops>>

\* stop_patrol: the pending resume timer is cancelled, True is returned.
StopCancel(c) ==
    /\ pcall[c].pc = "stop_cancel"
    /\ timers' = IF interrupt_resume_timer # 0
                   THEN [timers EXCEPT ![interrupt_resume_timer] = Cancelled(@)]
                   ELSE timers
    /\ pcall' = [pcall EXCEPT ![c] = PatrolReturn("True")]
    /\ UNCHANGED <<pantilt_enabled, patrol_positions, patrol_active,
                   interrupted, current_position_index, patrol_direction,
                   interrupt_resume_timer, loops, pops>>

\* interrupt_patrol: `if not patrol_active: return False`
InterruptCheck(c) ==
    /\ pcall[c].pc = "interrupt"
    /\ pcall' = [pcall EXCEPT ![c] =
                   IF ~patrol_active THEN PatrolReturn("False")
                   ELSE [@ EXCEPT !.pc = "interrupt_set"]]
    /\ UNCHANGED <<pantilt_enabled, patrol_positions, patrol_active,
                   interrupted, current_position_index, patrol_direction,
                   interrupt_resume_timer, timers, loops, pops>>

\* interrupt_patrol: interrupted = True
InterruptSet(c) ==
    /\ pcall[c].pc = "interrupt_set"
    /\ interrupted' = TRUE
    /\ pcall' = [pcall EXCEPT ![c].pc = "interrupt_cancel"]
    /\ UNCHANGED <<pantilt_enabled, patrol_positions, patrol_active,
                   current_position_index, patrol_direction,
                   interrupt_resume_timer, timers, loops, pops>>

\* interrupt_patrol: the existing timer is cancelled.
InterruptCancel(c) ==
    /\ pcall[c].pc = "interrupt_cancel"
    /\ timers' = IF interrupt_resume_timer # 0
                   THEN [timers EXCEPT ![interrupt_resume_timer] = Cancelled(@)]
                   ELSE timers
    /\ pcall' = [pcall EXCEPT ![c].pc = "interrupt_new"]
    /\ UNCHANGED <<pantilt_enabled, patrol_positions, patrol_active,
                   interrupted, current_position_index, patrol_direction,
                   interrupt_resume_timer, loops, pops>>

\* interrupt_patrol: interrupt_resume_timer = threading.Timer(delay, resume_patrol)
InterruptNew(c) ==
    /\ pcall[c].pc = "interrupt_new"
    /\ NewTimer # 0
    /\ timers' = [timers EXCEPT ![NewTimer].state = "created"]
    /\ interrupt_resume_timer' = NewTimer
    /\ pcall' = [pcall EXCEPT ![c].pc = "interrupt_start"]
    /\ UNCHANGED <<pantilt_enabled, patrol_positions, patrol_active,
                   interrupted, current_position_index, patrol_direction,
                   loops, pops>>

\* Timer.start(): the timer's thread waits for the delay unless the timer
\* was cancelled before.
Started(tm) ==
    IF tm.state = "created"
      THEN [state |-> "pending", started |-> TRUE,
            due |-> now + interrupt_resume_delay]
      ELSE [tm EXCEPT !.started = TRUE]

\* interrupt_patrol: interrupt_resume_timer.start(), then True is returned.
\* The timer started is the one the global names now; starting a thread a
\* second time raises RuntimeError.
InterruptStart(c) ==
    /\ pcall[c].pc = "interrupt_start"
    /\ IF ~timers[interrupt_resume_timer].started
         THEN /\ timers' = [timers EXCEPT ![interrupt_resume_timer] = Started(@)]
              /\ pcall' = [pcall EXCEPT ![c] = PatrolReturn("True")]
         ELSE /\ UNCHANGED timers
              /\ pcall' = [pcall EXCEPT ![c] = PatrolReturn("raised")]
    /\ UNCHANGED <<pantilt_enabled, patrol_positions, patrol_active,
                   interrupted, current_position_index, patrol_direction,
                   interrupt_resume_timer, loops, pops>>

\* A timer that runs resume_patrol without waiting for its delay.
TimerFire_at_once(i) ==
    /\ timers[i].state = "pending"
    /\ timers' = [timers EXCEPT ![i].state =
                     IF patrol_active /\ interrupted THEN "running" ELSE "done"]
    /\ UNCHANGED <<pantilt_enabled, patrol_positions, patrol_active,
                   interrupted, current_position_index, patrol_direction,
                   interrupt_resume_timer, pcall, loops, pops>>

\* The timer's delay is over: resume_patrol runs and tests
\* `patrol_active and interrupted`.
TimerFire(i) ==
    /\ timers[i].state = "pending"
    /\ now >= timers[i].due
    /\ timers' = [timers EXCEPT ![i].state =
                     IF patrol_active /\ interrupted THEN "running" ELSE "done"]
    /\ UNCHANGED <<pantilt_enabled, patrol_positions, patrol_active,
                   interrupted, current_position_index, patrol_direction,
                   interrupt_resume_timer, pcall, loops, pops>>

\* resume_patrol: interrupted = False
ResumeWrite(i) ==
    /\ timers[i].state = "running"
    /\ interrupted' = FALSE
    /\ timers' = [timers EXCEPT ![i].state = "done"]
    /\ UNCHANGED <<pantilt_enabled, patrol_positions, patrol_active,
                   current_position_index, patrol_direction,
                   interrupt_resume_timer, pcall, loops, pops>>

\* dwell_time of the saved positions, in seconds
DwellTimes == {1}

\* patrol_loop: `while patrol_active`, the wait while interrupted (the loop
\* sleeps and tests again) and the test for an empty position list.
LoopTop(k) ==
    /\ loops[k].pc = "top"
    /\ ~patrol_active \/ ~interrupted
    /\ IF ~patrol_active
         THEN loops' = [loops EXCEPT ![k].pc = "done"] /\ UNCHANGED patrol_active
         ELSE IF patrol_positions = <<>>
           THEN loops' = [loops EXCEPT ![k].pc = "done"] /\ patrol_active' = FALSE
           ELSE loops' = [loops EXCEPT ![k].pc = "move"] /\ UNCHANGED patrol_active
    /\ UNCHANGED <<pantilt_enabled, patrol_positions, interrupted,
                   current_position_index, patrol_direction,
                   interrupt_resume_timer, timers, pcall, pops>>

\* patrol_loop: positions[current_position_index] (IndexError ends the
\* thread), move_to, and the start of the dwell.
LoopMove(k) ==
    /\ loops[k].pc = "move"
    /\ IF current_position_index < Len(patrol_positions)
         THEN \E dwell \in DwellTimes :
                loops' = [loops EXCEPT ![k] =
                            [pc |-> "dwell", wake |-> now + dwell]]
         ELSE loops' = [loops EXCEPT ![k].pc = "done"]
    /\ UNCHANGED <<pantilt_enabled, patrol_positions, patrol_active,
                   interrupted, current_position_index, patrol_direction,
                   interrupt_resume_timer, timers, pcall, pops>>

\* The dwell is over, or was broken off.
DwellOver(k) ==
    now >= loops[k].wake \/ ~patrol_active \/ interrupted

\* A loop that goes from the last position straight back to the first.
LoopAdvance_wraps(k) ==
    /\ loops[k].pc = "dwell"
    /\ DwellOver(k)
    /\ current_position_index' =
          (current_position_index + 1) % Len(patrol_positions)
    /\ loops' = [loops EXCEPT ![k] = [pc |-> "top", wake |-> 0]]
    /\ UNCHANGED <<pantilt_enabled, patrol_positions, patrol_active,
                   interrupted, patrol_direction, interrupt_resume_timer,
                   timers, pcall, pops>>

\* A loop that turns around without keeping the index inside a short list.
LoopAdvance_unclamped(k) ==
    /\ loops[k].pc = "dwell"
    /\ DwellOver(k)
    /\ LET n == Len(patrol_positions)
           next_index == current_position_index + patrol_direction
       IN IF next_index >= n
            THEN /\ patrol_direction' = -1
                 /\ current_position_index' = n - 2
            ELSE IF next_index < 0
              THEN /\ patrol_direction' = 1
                   /\ current_position_index' = 1
              ELSE /\ current_position_index' = next_index
                   /\ UNCHANGED patrol_direction
    /\ loops' = [loops EXCEPT ![k] = [pc |-> "top", wake |-> 0]]
    /\ UNCHANGED <<pantilt_enabled, patrol_positions, patrol_active,
                   interrupted, interrupt_resume_timer, timers, pcall, pops>>

\* patrol_loop: after the dwell, the next index of the back-and-forth
\* pattern.
LoopAdvance(k) ==
    /\ loops[k].pc = "dwell"
    /\ DwellOver(k)
    /\ LET n == Len(patrol_positions)
           next_index == current_position_index + patrol_direction
       IN IF next_index >= n
            THEN /\ patrol_direction' = -1
                 /\ current_position_index' = IF n - 2 < 0 THEN 0 ELSE n - 2
            ELSE IF next_index < 0
              THEN /\ patrol_direction' = 1
                   /\ current_position_index' = IF 1 >= n THEN 0 ELSE 1
              ELSE /\ current_position_index' = next_index
                   /\ UNCHANGED patrol_direction
    /\ loops' = [loops EXCEPT ![k] = [pc |-> "top", wake |-> 0]]
    /\ UNCHANGED <<pantilt_enabled, patrol_positions, patrol_active,
                   interrupted, interrupt_resume_timer, timers, pcall, pops>>

\* Something in the patrol module can run now.
PatrolBusy ==
    \/ \E c \in PatrolCallers : pcall[c].pc # "idle"
    \/ \E i \in Timers : timers[i].state = "running"
    \/ \E i \in Timers : timers[i].state = "pending" /\ now >= timers[i].due
    \/ \E k \in PatrolLoops : loops[k].pc = "move"
    \/ \E k \in PatrolLoops :
          loops[k].pc = "top" /\ (~patrol_active \/ ~interrupted)
    \/ \E k \in PatrolLoops : loops[k].pc = "dwell" /\ DwellOver(k)

\* One second passes. Statements take no time on this clock; sleeps, dwells
\* and timers end when they are due.
PatrolTick ==
    /\ now < StartTime + MaxSeconds
    /\ ~PatrolBusy
    /\ now' = now + 1
    /\ UNCHANGED patrolVars

NextPatrol ==
    \/ \E c \in PatrolCallers : CallPatrol(c) /\ UNCHANGED <<now, garageRest, camVars, securityVars>>
    \/ \E c \in PatrolCallers : StartCheck(c) /\ UNCHANGED <<now, garageRest, camVars, securityVars>>
    \/ \E c \in PatrolCallers : StartReset(c) /\ UNCHANGED <<now, garageRest, camVars, securityVars>>
    \/ \E c \in PatrolCallers : StartThread(c) /\ UNCHANGED <<now, garageRest, camVars, securityVars>>
    \/ \E c \in PatrolCallers : StopCheck(c) /\ UNCHANGED <<now, garageRest, camVars, securityVars>>
    \/ \E c \in PatrolCallers : StopActive(c) /\ UNCHANGED <<now, garageRest, camVars, securityVars>>
    \/ \E c \in PatrolCallers : StopInterrupted(c) /\ UNCHANGED <<now, garageRest, camVars, securityVars>>
    \/ \E c \in PatrolCallers : StopCancel(c) /\ UNCHANGED <<now, garageRest, camVars, securityVars>>
    \/ \E c \in PatrolCallers : InterruptCheck(c) /\ UNCHANGED <<now, garageRest, camVars, securityVars>>
    \/ \E c \in PatrolCallers : InterruptSet(c) /\ UNCHANGED <<now, garageRest, camVars, securityVars>>
    \/ \E c \in PatrolCallers : InterruptCancel(c) /\ UNCHANGED <<now, garageRest, camVars, securityVars>>
    \/ \E c \in PatrolCallers : InterruptNew(c) /\ UNCHANGED <<now, garageRest, camVars, securityVars>>
    \/ \E c \in PatrolCallers : InterruptStart(c) /\ UNCHANGED <<now, garageRest, camVars, securityVars>>
    \/ \E i \in Timers : TimerFire(i) /\ UNCHANGED <<now, garageRest, camVars, securityVars>>
    \/ \E i \in Timers : ResumeWrite(i) /\ UNCHANGED <<now, garageRest, camVars, securityVars>>
    \/ \E k \in PatrolLoops : LoopTop(k) /\ UNCHANGED <<now, garageRest, camVars, securityVars>>
    \/ \E k \in PatrolLoops : LoopMove(k) /\ UNCHANGED <<now, garageRest, camVars, securityVars>>
    \/ \E k \in PatrolLoops : LoopAdvance(k) /\ UNCHANGED <<now, garageRest, camVars, securityVars>>
    \/ PatrolTick /\ UNCHANGED <<garageRest, camVars, securityVars>>

SpecPatrol == InitPatrolLoaded /\ [][NextPatrol]_vars

\* One caller: the patrol API functions are called one after the other,
\* while the resume timers and the patrol threads run beside them.
NextPatrolSeq ==
    \/ CallPatrol("p1") /\ UNCHANGED <<now, garageRest, camVars, securityVars>>
    \/ StartCheck("p1") /\ UNCHANGED <<now, garageRest, camVars, securityVars>>
    \/ StartReset("p1") /\ UNCHANGED <<now, garageRest, camVars, securityVars>>
    \/ StartThread("p1") /\ UNCHANGED <<now, garageRest, camVars, securityVars>>
    \/ StopCheck("p1") /\ UNCHANGED <<now, garageRest, camVars, securityVars>>
    \/ StopActive("p1") /\ UNCHANGED <<now, garageRest, camVars, securityVars>>
    \/ StopInterrupted("p1") /\ UNCHANGED <<now, garageRest, camVars, securityVars>>
    \/ StopCancel("p1") /\ UNCHANGED <<now, garageRest, camVars, securityVars>>
    \/ InterruptCheck("p1") /\ UNCHANGED <<now, garageRest, camVars, securityVars>>
    \/ InterruptSet("p1") /\ UNCHANGED <<now, garageRest, camVars, securityVars>>
    \/ InterruptCancel("p1") /\ UNCHANGED <<now, garageRest, camVars, securityVars>>
    \/ InterruptNew("p1") /\ UNCHANGED <<now, garageRest, camVars, securityVars>>
    \/ InterruptStart("p1") /\ UNCHANGED <<now, garageRest, camVars, securityVars>>
    \/ \E i \in Timers : TimerFire(i) /\ UNCHANGED <<now, garageRest, camVars, securityVars>>
    \/ \E i \in Timers : ResumeWrite(i) /\ UNCHANGED <<now, garageRest, camVars, securityVars>>
    \/ \E k \in PatrolLoops : LoopTop(k) /\ UNCHANGED <<now, garageRest, camVars, securityVars>>
    \/ \E k \in PatrolLoops : LoopMove(k) /\ UNCHANGED <<now, garageRest, camVars, securityVars>>
    \/ \E k \in PatrolLoops : LoopAdvance(k) /\ UNCHANGED <<now, garageRest, camVars, securityVars>>
    \/ PatrolTick /\ UNCHANGED <<garageRest, camVars, securityVars>>

SpecPatrolSeq == InitPatrolLoaded /\ [][NextPatrolSeq]_vars

(***************************************************************************)
(* The patrol on its route: start_patrol has returned True and the patrol  *)
(* thread goes through a fixed list of positions with no interruption.     *)
(***************************************************************************)
PositionIds == 1..MaxPositions

\* The lists of positions with distinct ids.
PositionLists ==
    {l \in UNION {[1..n -> PositionIds] : n \in 1..MaxPositions} :
        \A i, j \in DOMAIN l : i # j => l[i] # l[j]}

PatrolRunning(positions) ==
    /\ pantilt_enabled = TRUE
    /\ patrol_positions = positions
    /\ patrol_active = TRUE
    /\ interrupted = FALSE
    /\ current_position_index = 0
    /\ patrol_direction = 1
    /\ interrupt_resume_timer = 0
    /\ timers = [i \in Timers |-> NoTimer]
    /\ pcall = [c \in PatrolCallers |-> IdlePatrolCall]
    /\ loops = [k \in PatrolLoops |->
                  IF k = 1 THEN [pc |-> "top", wake |-> 0] ELSE NoLoop]
    /\ pops = 1

InitRoute ==
    /\ InitGarage
    /\ InitCamera
    /\ InitSecurity
    /\ \E positions \in PositionLists : PatrolRunning(positions)

\* patrol_loop moves to positions[current_position_index]; the position it
\* moves to is noted.
RouteMove(k) ==
    /\ LoopMove(k)
    /\ Len(visited) < MaxVisits
    /\ visited' = IF current_position_index < Len(patrol_positions)
                    THEN Append(visited,
                                patrol_positions[current_position_index + 1])
                    ELSE visited
    /\ UNCHANGED assigned

NextRoute ==
    \/ \E k \in PatrolLoops : LoopTop(k) /\ UNCHANGED <<now, garageRest, camVars, securityVars>>
    \/ \E k \in PatrolLoops : RouteMove(k) /\ UNCHANGED <<now, garageRest, camVars, ctlVars, detVars>>
    \/ \E k \in PatrolLoops : LoopAdvance(k) /\ UNCHANGED <<now, garageRest, camVars, securityVars>>
    \/ PatrolTick /\ UNCHANGED <<garageRest, camVars, securityVars>>

SpecRoute == InitRoute /\ [][NextRoute]_vars

(***************************************************************************)
(* The position list being edited, beside a patrol that may be running.    *)
(***************************************************************************)
SeqMax(l) == CHOOSE m \in {l[i] : i \in DOMAIN l} :
                \A i \in DOMAIN l : l[i] <= m

\* [p for p in patrol_positions if p['id'] != position_id]
RECURSIVE Without(_, _)
Without(l, id) ==
    IF l = <<>> THEN <<>>
    ELSE IF Head(l) = id THEN Without(Tail(l), id)
    ELSE <<Head(l)>> \o Without(Tail(l), id)

\* add_position: the id is 1 for an empty list, else the largest id of the
\* list plus one; the position is appended.
AddPosition ==
    /\ Len(assigned) < MaxAdds
    /\ LET position_id == IF patrol_positions = <<>> THEN 1
                          ELSE SeqMax(patrol_positions) + 1
       IN /\ patrol_positions' = Append(patrol_positions, position_id)
          /\ assigned' = Append(assigned, position_id)
    /\ UNCHANGED <<pantilt_enabled, patrol_active, interrupted,
                   current_position_index, patrol_direction,
                   interrupt_resume_timer, timers, pcall, loops, pops,
                   visited>>

\* delete_position: the list is replaced by the list without the id.
DeletePosition(position_id) ==
    /\ patrol_positions' = Without(patrol_positions, position_id)
    /\ UNCHANGED <<pantilt_enabled, patrol_active, interrupted,
                   current_position_index, patrol_direction,
                   interrupt_resume_timer, timers, pcall, loops, pops>>

\* clear_all_positions: the list is replaced by an empty one.
ClearAllPositions ==
    /\ patrol_positions' = <<>>
    /\ UNCHANGED <<pantilt_enabled, patrol_active, interrupted,
                   current_position_index, patrol_direction,
                   interrupt_resume_timer, timers, pcall, loops, pops>>

InitEdit ==
    /\ InitGarage
    /\ InitCamera
    /\ InitSecurity
    /\ \E positions \in PositionLists \cup {<<>>}, started \in BOOLEAN :
          IF started /\ positions # <<>>
            THEN PatrolRunning(positions)
            ELSE PatrolAtRest(TRUE, positions)

\* The ids delete_position is called with: those of the list.
ListedIds == {patrol_positions[i] : i \in DOMAIN patrol_positions}

NextEdit ==
    \/ AddPosition /\ UNCHANGED <<now, garageRest, camVars, ctlVars, detVars>>
    \/ \E id \in ListedIds : DeletePosition(id) /\ UNCHANGED <<now, garageRest, camVars, securityVars>>
    \/ ClearAllPositions /\ UNCHANGED <<now, garageRest, camVars, securityVars>>
    \/ \E k \in PatrolLoops : LoopTop(k) /\ UNCHANGED <<now, garageRest, camVars, securityVars>>
    \/ \E k \in PatrolLoops : LoopMove(k) /\ UNCHANGED <<now, garageRest, camVars, securityVars>>
    \/ \E k \in PatrolLoops : LoopAdvance(k) /\ UNCHANGED <<now, garageRest, camVars, securityVars>>
    \/ PatrolTick /\ UNCHANGED <<garageRest, camVars, securityVars>>

SpecEdit == InitEdit /\ [][NextEdit]_vars

(***************************************************************************)
(* The pan-tilt controller called by one thread: move_to, home and         *)
(* track_object one after the other, on a pan-tilt that init_pantilt has   *)
(* or has not enabled.                                                     *)
(***************************************************************************)
InitMoves ==
    /\ InitGarage
    /\ InitCamera
    /\ InitSecurity
    /\ \E enabled \in BOOLEAN : PatrolAtRest(enabled, <<>>)

NextMoves ==
    \/ CtlMoveTo /\ UNCHANGED <<garageVars, camVars, patrolVars, posVars, detVars>>
    \/ CtlHome /\ UNCHANGED <<garageVars, camVars, patrolVars, posVars, detVars>>
    \/ TrackBegin /\ UNCHANGED <<garageVars, camVars, patrolVars, posVars, detVars>>
    \/ TrackEnd /\ UNCHANGED <<garageVars, camVars, patrolVars, posVars, detVars>>

SpecMoves == InitMoves /\ [][NextMoves]_vars

(***************************************************************************)
(* pantilt_controller.track_object called beside a running position        *)
(* patrol.                                                                 *)
(***************************************************************************)
InitTrackPatrol ==
    /\ InitGarage
    /\ InitCamera
    /\ InitSecurity
    /\ \E positions \in SavedPositions \ {<<>>} : PatrolRunning(positions)

NextTrackPatrol ==
    \/ TrackBegin /\ UNCHANGED <<garageVars, camVars, patrolVars, posVars, detVars>>
    \/ TrackEnd /\ UNCHANGED <<garageVars, camVars, patrolVars, posVars, detVars>>
    \/ \E k \in PatrolLoops : LoopTop(k) /\ UNCHANGED <<now, garageRest, camVars, securityVars>>
    \/ \E k \in PatrolLoops : LoopMove(k) /\ UNCHANGED <<now, garageRest, camVars, securityVars>>
    \/ \E k \in PatrolLoops : LoopAdvance(k) /\ UNCHANGED <<now, garageRest, camVars, securityVars>>
    \/ PatrolTick /\ UNCHANGED <<garageRest, camVars, securityVars>>

SpecTrackPatrol == InitTrackPatrol /\ [][NextTrackPatrol]_vars

Init == InitGarage /\ InitCamera /\ InitPatrol /\ InitSecurity

SpecGarage == Init /\ [][NextGarage]_vars

SpecGarageSeq == Init /\ [][NextGarageSeq]_vars

SpecCamera == Init /\ [][NextCamera]_vars

(***************************************************************************)
(* The camera in service: security_manager.init_security has called        *)
(* init_camera, which returned True, and the capture thread has passed its *)
(* test capture and is in its loop with n consecutive failures counted.    *)
(***************************************************************************)
CameraRunning(n) ==
    /\ camera = "open"
    /\ camera_enabled = TRUE
    /\ frame_buffer = 0
    /\ frame_timestamp = NoTime
    /\ capture_thread = 1
    /\ capture_thread_running = TRUE
    /\ refresh_lock = "free"
    /\ last_refresh_time = 0
    /\ cap = [k \in CaptureThreads |->
                IF k = 1 THEN [NoThread EXCEPT !.pc = "loop",
                                               !.consecutive_failures = n]
                         ELSE NoThread]
    /\ caller = [c \in CamCallers |-> IdleCaller]
    /\ captured = 0
    /\ ops = 0
    /\ reads = 0
    /\ latest = 0
    /\ reinit_failed = FALSE

InitFrames == InitGarage /\ CameraRunning(0) /\ InitPatrol /\ InitSecurity

\* The frame buffer in service: health checks, init_camera and stop_camera
\* against the capture loop.
NextFrames ==
    \/ \E c \in CamCallers : CallEnsure(c) /\ UNCHANGED <<now, garageRest, patrolVars, securityVars>>
    \/ \E c \in CamCallers : EnsureEnabled(c) /\ UNCHANGED <<now, garageRest, patrolVars, securityVars>>
    \/ \E c \in CamCallers : Age1(c) /\ UNCHANGED <<now, garageRest, patrolVars, securityVars>>
    \/ \E c \in CamCallers : Age2(c) /\ UNCHANGED <<now, garageRest, patrolVars, securityVars>>
    \/ \E c \in CamCallers : Decide(c) /\ UNCHANGED <<now, garageRest, patrolVars, securityVars>>
    \/ \E c \in CamCallers : Acquire(c) /\ UNCHANGED <<now, garageRest, patrolVars, securityVars>>
    \/ \E c \in CamCallers : CallStop(c) /\ UNCHANGED <<now, garageRest, patrolVars, securityVars>>
    \/ \E c \in CamCallers : StopBegin(c) /\ UNCHANGED <<now, garageRest, patrolVars, securityVars>>
    \/ \E c \in CamCallers : Join(c) /\ UNCHANGED <<now, garageRest, patrolVars, securityVars>>
    \/ \E c \in CamCallers : StopClear(c) /\ UNCHANGED <<now, garageRest, patrolVars, securityVars>>
    \/ \E c \in CamCallers : StopClose(c) /\ UNCHANGED <<now, garageRest, patrolVars, securityVars>>
    \/ \E c \in CamCallers : RefreshClear(c) /\ UNCHANGED <<now, garageRest, patrolVars, securityVars>>
    \/ \E c \in CamCallers : RefreshWake(c) /\ UNCHANGED <<now, garageRest, patrolVars, securityVars>>
    \/ \E c \in CamCallers : CallInit(c) /\ UNCHANGED <<now, garageRest, patrolVars, securityVars>>
    \/ \E c \in CamCallers : InitOpen(c) /\ UNCHANGED <<now, garageRest, patrolVars, securityVars>>
    \/ \E c \in CamCallers : InitEnable(c) /\ UNCHANGED <<now, garageRest, patrolVars, securityVars>>
    \/ \E k \in CaptureThreads : WaitReady(k) /\ UNCHANGED <<now, garageRest, patrolVars, securityVars>>
    \/ \E k \in CaptureThreads : TestCapture(k) /\ UNCHANGED <<now, garageRest, patrolVars, securityVars>>
    \/ \E k \in CaptureThreads : LoopHead(k) /\ UNCHANGED <<now, garageRest, patrolVars, securityVars>>
    \/ \E k \in CaptureThreads : Capture(k) /\ UNCHANGED <<now, garageRest, patrolVars, securityVars>>
    \/ \E k \in CaptureThreads : Publish(k) /\ UNCHANGED <<now, garageRest, patrolVars, securityVars>>
    \/ CamTick /\ UNCHANGED <<garageRest, patrolVars, securityVars>>

SpecFrames == InitFrames /\ [][NextFrames]_vars

\* One caller: refresh_camera and stop_camera are called one after the
\* other on the camera in service, so that a capture thread is only ever
\* started by the init_camera of a refresh, after its stop_camera.
NextRefresh ==
    \/ CallRefresh("health") /\ UNCHANGED <<now, garageRest, patrolVars, securityVars>>
    \/ Acquire("health") /\ UNCHANGED <<now, garageRest, patrolVars, securityVars>>
    \/ CallStop("health") /\ UNCHANGED <<now, garageRest, patrolVars, securityVars>>
    \/ StopBegin("health") /\ UNCHANGED <<now, garageRest, patrolVars, securityVars>>
    \/ Join("health") /\ UNCHANGED <<now, garageRest, patrolVars, securityVars>>
    \/ StopClear("health") /\ UNCHANGED <<now, garageRest, patrolVars, securityVars>>
    \/ StopClose("health") /\ UNCHANGED <<now, garageRest, patrolVars, securityVars>>
    \/ RefreshClear("health") /\ UNCHANGED <<now, garageRest, patrolVars, securityVars>>
    \/ RefreshWake("health") /\ UNCHANGED <<now, garageRest, patrolVars, securityVars>>
    \/ InitOpen("health") /\ UNCHANGED <<now, garageRest, patrolVars, securityVars>>
    \/ InitEnable("health") /\ UNCHANGED <<now, garageRest, patrolVars, securityVars>>
    \/ \E k \in CaptureThreads : WaitReady(k) /\ UNCHANGED <<now, garageRest, patrolVars, securityVars>>
    \/ \E k \in CaptureThreads : TestCapture(k) /\ UNCHANGED <<now, garageRest, patrolVars, securityVars>>
    \/ \E k \in CaptureThreads : LoopHead(k) /\ UNCHANGED <<now, garageRest, patrolVars, securityVars>>
    \/ \E k \in CaptureThreads : Capture(k) /\ UNCHANGED <<now, garageRest, patrolVars, securityVars>>
    \/ \E k \in CaptureThreads : Publish(k) /\ UNCHANGED <<now, garageRest, patrolVars, securityVars>>
    \/ CamTick /\ UNCHANGED <<garageRest, patrolVars, securityVars>>

SpecRefresh == InitFrames /\ [][NextRefresh]_vars

(***************************************************************************)
(* The two locks of camera_manager. Each `with frame_buffer_lock:` block   *)
(* is entered in one step and left in another, so that a thread can be     *)
(* seen inside it: stop_camera (s_locked), refresh_camera (r_locked),      *)
(* get_frame (g_locked) and the capture loop (p_locked).                   *)
(***************************************************************************)
\* get_frame calls made beside the refreshes
MaxLockReads == 1

\* The time a wait of d seconds takes on a clock that advances by
\* TickSeconds.
WaitSpan(d) == ((d + TickSeconds - 1) \div TickSeconds) * TickSeconds

\* The longest a refresh_camera call takes once it holds refresh_lock: the
\* join of stop_camera, time.sleep(2), and the warm-up of init_camera.
RefreshSpan ==
    WaitSpan(JoinTimeoutSeconds) + WaitSpan(SettleSeconds)
      + WaitSpan(WarmUpSeconds)

\* The clock of the lock model runs long enough for the calls made at its
\* start to be served one after the other.
MaxLockSeconds == MaxOps * RefreshSpan

\* The pc of a caller inside a `with frame_buffer_lock:` block.
LockedPcs == {"s_locked", "r_locked", "g_locked"}

\* frame_buffer_lock is not held.
FrameLockFree ==
    /\ \A c \in CamCallers : caller[c].pc \notin LockedPcs
    /\ \A k \in CaptureThreads : cap[k].pc # "p_locked"

\* Thread objects are left for the init_camera of one more refresh.
ThreadLeft ==
    Cardinality({k \in CaptureThreads : cap[k].pc # "none"})
      + Cardinality({c \in CamCallers : caller[c].op = "refresh"})
        < MaxThreads

\* `with frame_buffer_lock:` is entered by stop_camera, refresh_camera or
\* get_frame.
EnterFrameLock(c) ==
    /\ caller[c].pc \in {"s_clear", "r_clear", "g_read"}
    /\ FrameLockFree
    /\ caller' = [caller EXCEPT ![c].pc =
                    IF caller[c].pc = "s_clear" THEN "s_locked"
                    ELSE IF caller[c].pc = "r_clear" THEN "r_locked"
                    ELSE "g_locked"]
    /\ UNCHANGED <<camera, camera_enabled, frame_buffer, frame_timestamp,
                   capture_thread, capture_thread_running, refresh_lock,
                   last_refresh_time, cap, captured, ops, latest,
                   reinit_failed, reads>>

\* stop_camera: frame_buffer = None, frame_timestamp = None, and the block
\* is left.
StopCleared(c) ==
    /\ caller[c].pc = "s_locked"
    /\ frame_buffer' = 0
    /\ frame_timestamp' = NoTime
    /\ latest' = 0
    /\ caller' = [caller EXCEPT ![c].pc = "s_close"]
    /\ UNCHANGED <<camera, camera_enabled, capture_thread,
                   capture_thread_running, refresh_lock, last_refresh_time,
                   cap, captured, ops, reinit_failed, reads>>

\* refresh_camera: the same two assignments, the block is left, and
\* time.sleep(2) begins.
RefreshCleared(c) ==
    /\ caller[c].pc = "r_locked"
    /\ frame_buffer' = 0
    /\ frame_timestamp' = NoTime
    /\ latest' = 0
    /\ caller' = [caller EXCEPT ![c].pc = "r_sleep",
                                ![c].wake = now + SettleSeconds]
    /\ UNCHANGED <<camera, camera_enabled, capture_thread,
                   capture_thread_running, refresh_lock, last_refresh_time,
                   cap, captured, ops, reinit_failed, reads>>

\* get_frame: the copy is returned from inside the block.
GetFrameCopied(c) ==
    /\ caller[c].pc = "g_locked"
    /\ caller' = [caller EXCEPT ![c] =
                    [IdleCaller EXCEPT !.ret = "frame",
                                       !.frame = frame_buffer]]
    /\ UNCHANGED <<camera, camera_enabled, frame_buffer, frame_timestamp,
                   capture_thread, capture_thread_running, refresh_lock,
                   last_refresh_time, cap, captured, ops, latest,
                   reinit_failed, reads>>

\* _continuous_capture: `with frame_buffer_lock:` is entered.
PublishEnter(k) ==
    /\ cap[k].pc = "publish"
    /\ FrameLockFree
    /\ cap' = [cap EXCEPT ![k].pc = "p_locked"]
    /\ UNCHANGED <<camera, camera_enabled, frame_buffer, frame_timestamp,
                   capture_thread, capture_thread_running, refresh_lock,
                   last_refresh_time, caller, captured, ops, latest,
                   reinit_failed, reads>>

\* _continuous_capture: the frame and its time are stored, the block is
\* left.
Published(k) ==
    /\ cap[k].pc = "p_locked"
    /\ frame_buffer' = cap[k].frame
    /\ frame_timestamp' = cap[k].capture_time
    /\ latest' = cap[k].frame
    /\ cap' = [cap EXCEPT ![k].pc = "loop", ![k].frame = 0,
                          ![k].capture_time = 0]
    /\ UNCHANGED <<camera, camera_enabled, capture_thread,
                   capture_thread_running, refresh_lock, last_refresh_time,
                   caller, captured, ops, reinit_failed, reads>>

\* Time passes when no thread has a statement to execute; a thread inside
\* a `with frame_buffer_lock:` block always has one.
LockTick ==
    /\ now + TickSeconds <= StartTime + MaxLockSeconds
    /\ FrameLockFree
    /\ \A c \in CamCallers : ~CallerReady(c)
    /\ \A k \in CaptureThreads : ~ThreadReady(k)
    /\ now' = now + TickSeconds
    /\ UNCHANGED <<camVars, patrolVars, securityVars>>

\* The calls are made at the start, in any order and between any steps of
\* the threads, so that the clock leaves each the time to return.
CallsOpen == now = StartTime

\* What a caller inside camera_manager does next.
CallerStep(c) ==
    \/ Acquire(c)
    \/ StopBegin(c)
    \/ Join(c)
    \/ EnterFrameLock(c)
    \/ StopCleared(c)
    \/ StopClose(c)
    \/ RefreshCleared(c)
    \/ RefreshWake(c)
    \/ InitOpen(c)
    \/ InitEnable(c)
    \/ GetFrameCopied(c)

\* What a capture thread does next, camera.capture_array() apart: the call
\* may take any time.
ThreadStep(k) ==
    \/ WaitReady(k)
    \/ TestCapture(k)
    \/ LoopHead(k)
    \/ PublishEnter(k)
    \/ Published(k)

\* The camera is in service, or init_camera has not been called yet.
InitLocks ==
    /\ InitGarage
    /\ InitPatrol
    /\ InitSecurity
    /\ InitCamera \/ CameraRunning(0)

NextLocks ==
    \/ \E c \in CamCallers : (CallsOpen /\ ThreadLeft /\ CallRefresh(c)) /\ UNCHANGED <<now, garageRest, patrolVars, securityVars>>
    \/ \E c \in CamCallers : (CallsOpen /\ CallStop(c)) /\ UNCHANGED <<now, garageRest, patrolVars, securityVars>>
    \/ \E c \in CamCallers : (CallsOpen /\ reads < MaxLockReads /\ CallGetFrame(c)) /\ UNCHANGED <<now, garageRest, patrolVars, securityVars>>
    \/ \E c \in CamCallers : Acquire(c) /\ UNCHANGED <<now, garageRest, patrolVars, securityVars>>
    \/ \E c \in CamCallers : StopBegin(c) /\ UNCHANGED <<now, garageRest, patrolVars, securityVars>>
    \/ \E c \in CamCallers : Join(c) /\ UNCHANGED <<now, garageRest, patrolVars, securityVars>>
    \/ \E c \in CamCallers : EnterFrameLock(c) /\ UNCHANGED <<now, garageRest, patrolVars, securityVars>>
    \/ \E c \in CamCallers : StopCleared(c) /\ UNCHANGED <<now, garageRest, patrolVars, securityVars>>
    \/ \E c \in CamCallers : StopClose(c) /\ UNCHANGED <<now, garageRest, patrolVars, securityVars>>
    \/ \E c \in CamCallers : RefreshCleared(c) /\ UNCHANGED <<now, garageRest, patrolVars, securityVars>>
    \/ \E c \in CamCallers : RefreshWake(c) /\ UNCHANGED <<now, garageRest, patrolVars, securityVars>>
    \/ \E c \in CamCallers : InitOpen(c) /\ UNCHANGED <<now, garageRest, patrolVars, securityVars>>
    \/ \E c \in CamCallers : InitEnable(c) /\ UNCHANGED <<now, garageRest, patrolVars, securityVars>>
    \/ \E c \in CamCallers : GetFrameCopied(c) /\ UNCHANGED <<now, garageRest, patrolVars, securityVars>>
    \/ \E k \in CaptureThreads : WaitReady(k) /\ UNCHANGED <<now, garageRest, patrolVars, securityVars>>
    \/ \E k \in CaptureThreads : TestCapture(k) /\ UNCHANGED <<now, garageRest, patrolVars, securityVars>>
    \/ \E k \in CaptureThreads : LoopHead(k) /\ UNCHANGED <<now, garageRest, patrolVars, securityVars>>
    \/ \E k \in CaptureThreads : Capture(k) /\ UNCHANGED <<now, garageRest, patrolVars, securityVars>>
    \/ \E k \in CaptureThreads : PublishEnter(k) /\ UNCHANGED <<now, garageRest, patrolVars, securityVars>>
    \/ \E k \in CaptureThreads : Published(k) /\ UNCHANGED <<now, garageRest, patrolVars, securityVars>>
    \/ LockTick /\ UNCHANGED garageRest

\* The scheduler runs every thread that has a statement to execute, and
\* time passes; nothing is assumed of camera.capture_array() returning or
\* of further calls being made.
SpecLocks ==
    /\ InitLocks
    /\ [][NextLocks]_vars
    /\ \A c \in CamCallers :
          WF_vars(CallerStep(c) /\ UNCHANGED <<now, garageRest, patrolVars, securityVars>>)
    /\ \A k \in CaptureThreads :
          WF_vars(ThreadStep(k) /\ UNCHANGED <<now, garageRest, patrolVars, securityVars>>)
    /\ WF_vars(LockTick /\ UNCHANGED garageRest)

InitCapture ==
    /\ InitGarage
    /\ InitPatrol
    /\ InitSecurity
    /\ \E n \in 0..(max_consecutive_failures - 1) : CameraRunning(n)

\* The capture loop on its own.
NextCapture ==
    \/ \E k \in CaptureThreads : LoopHead(k) /\ UNCHANGED <<now, garageRest, patrolVars, securityVars>>
    \/ \E k \in CaptureThreads : Capture(k) /\ UNCHANGED <<now, garageRest, patrolVars, securityVars>>
    \/ \E k \in CaptureThreads : Publish(k) /\ UNCHANGED <<now, garageRest, patrolVars, securityVars>>
    \/ CamTick /\ UNCHANGED <<garageRest, patrolVars, securityVars>>

SpecCapture == InitCapture /\ [][NextCapture]_vars

(***************************************************************************)
(* Detection in service: init_security has returned True, start_detection  *)
(* has started the detection thread, the camera runs; the pan-tilt is or   *)
(* is not enabled and tracking is or is not configured.                    *)
(***************************************************************************)
InitDetect ==
    /\ InitGarage
    /\ CameraRunning(0)
    /\ InitPositions
    /\ InitController
    /\ \E enabled \in BOOLEAN : PatrolAtRest(enabled, <<>>)
    /\ \E tracking \in BOOLEAN : DetectionAtRest(tracking)

NextDetect ==
    \/ DetFrame /\ UNCHANGED <<garageVars, camVars, patrolVars, posVars, ctlVars>>
    \/ DetDetect /\ UNCHANGED <<garageVars, camVars, patrolVars, posVars, ctlVars>>
    \/ DetFilter /\ UNCHANGED <<garageVars, camVars, patrolVars, posVars, ctlVars>>
    \/ DetSnapshot /\ UNCHANGED <<garageVars, camVars, patrolVars, posVars, ctlVars>>
    \/ DetTrack /\ UNCHANGED <<garageVars, camVars, patrolVars, posVars>>
    \/ BufferPublished /\ UNCHANGED <<garageVars, patrolVars, securityVars>>
    \/ BufferCleared /\ UNCHANGED <<garageVars, patrolVars, securityVars>>
    \/ ServiceChange /\ UNCHANGED <<garageVars, camVars, patrolVars, posVars, ctlVars>>

SpecDetect == InitDetect /\ [][NextDetect]_vars

(***************************************************************************)
(* Steps of open_garage, as seen from outside.                             *)
(***************************************************************************)
\* the call reaches the cooldown gate with the Flipper enabled
GateStep(t) == g[t].pc = "begin" /\ g'[t].pc # "begin" /\ flipper_enabled
\* the call returns False: "Garage command on cooldown"
RejectStep(t) ==
    g[t].pc = "begin" /\ g'[t].pc = "idle" /\ g'[t].result = "cooldown"
\* the call returns False after it passed the gate
FailStep(t) == g[t].pc \in {"alt_load", "alt_tx"} /\ g'[t].pc = "idle"
\* the call returns True
SuccessStep(t) == g[t].pc = "hold" /\ g'[t].pc = "idle"

Distance(a, b) == IF a >= b THEN a - b ELSE b - a

(***************************************************************************)
(* C1. Under concurrent open_garage calls at most one passes the cooldown  *)
(* gate and transmits per cooldown window: two calls in progress never     *)
(* both have started a transmission less than one cooldown apart.          *)
(***************************************************************************)
C1_OneTransmissionPerWindow ==
    \A t, u \in Callers :
        (t # u /\ g[t].tx_at > 0 /\ g[u].tx_at > 0)
            => Distance(g[t].tx_at, g[u].tx_at) >= cooldown_seconds

(***************************************************************************)
(* C2, as stated. In a sequential series of calls, a call at time t is     *)
(* rejected exactly when t - last_fired < cooldown, last_fired being the   *)
(* time of the last successful trigger (the time that call was made): so a *)
(* call 301 s after a successful first call is not rejected.               *)
(***************************************************************************)
C2_RejectedIffWithinCooldownOfTrigger ==
    [][\A t \in Callers :
          GateStep(t) =>
              (RejectStep(t) <=> now - last_ok_gate < cooldown_seconds)]_vars

(***************************************************************************)
(* C2, amended. In a sequential series of open_garage calls with the       *)
(* Flipper enabled, a call that reaches the gate at time t is rejected     *)
(* exactly when t - last_command_time < cooldown and otherwise goes on to  *)
(* the actuator, where last_command_time is the time the last successful   *)
(* call returned (0 before any): a call exactly one cooldown after that    *)
(* return is not rejected.                                                 *)
(***************************************************************************)
C2_RejectedIffWithinCooldownOfReturn ==
    [][\A t \in Callers :
          /\ GateStep(t) =>
               /\ RejectStep(t) <=> now - last_command_time < cooldown_seconds
               /\ ~RejectStep(t) => g'[t].pc = "loader"
          /\ SuccessStep(t) => last_command_time' = now]_vars

\* a call made exactly one cooldown after the last successful call returned
\* has passed the gate
C2_Witness ==
    \E t \in Callers :
        /\ g[t].pc = "loader"
        /\ last_command_time > 0
        /\ g[t].gate_time = last_command_time + cooldown_seconds

C4_RejectionHasNoSideEffects ==
    [][\A t \in Callers :
          RejectStep(t) =>
              /\ g'[t].sent = 0
              /\ g'[t].tx_at = 0
              /\ last_command_time' = last_command_time
              /\ last_my_car_time' = last_my_car_time
              /\ notifications' = notifications
              /\ \A u \in Callers \ {t} : g'[u] = g[u]]_vars

\* a call has been rejected by the cooldown
C4_Witness ==
    \E t \in Callers : g[t].pc = "idle" /\ g[t].result = "cooldown"

(***************************************************************************)
(* Steps of the camera operations, as seen from outside.                   *)
(***************************************************************************)
\* Caller c executes a statement at position pc.
StepAt(c, pc) == caller[c].pc = pc /\ caller'[c] # caller[c]

\* Caller c is inside the stop / clear / settle / reinitialize sequence of
\* refresh_camera.
InRefreshSequence(c) ==
    /\ caller[c].op \in {"refresh", "ensure"}
    /\ caller[c].pc \in {"s_begin", "s_join", "s_clear", "s_close", "r_clear",
                         "r_sleep", "i_open", "i_warm"}

\* The camera, the buffer and the last-refresh time are left as they are.
CameraUntouched ==
    UNCHANGED <<camera, camera_enabled, frame_buffer, frame_timestamp,
                capture_thread, capture_thread_running, last_refresh_time>>

\* C5: with the cooldown of 10 s, a refresh_camera(force=False) made less
\* than 10 s after a successful refresh is a no-op that returns False.
C5_RefreshWithinCooldownIsNoOp ==
    [][\A c \in CamCallers :
         ( /\ StepAt(c, "r_lock")
           /\ caller[c].op = "refresh"
           /\ ~caller[c].force
           /\ last_refresh_time # 0
           /\ now - last_refresh_time < REFRESH_COOLDOWN_SECONDS )
         => /\ caller'[c].pc = "idle"
            /\ caller'[c].ret = "False"
            /\ CameraUntouched]_vars

\* C6: no two executions of refresh_camera are inside the stop / clear /
\* settle / reinitialize sequence at the same time.
C6_OneRefreshAtATime ==
    \A c, d \in CamCallers :
        c # d => ~(InRefreshSequence(c) /\ InRefreshSequence(d))

\* A forced refresh waits for the lock while another refresh is settling.
C6_Witness ==
    \E c, d \in CamCallers :
        /\ InRefreshSequence(c)
        /\ caller[c].pc = "r_sleep"
        /\ caller[d].pc = "r_lock"
        /\ caller[d].force

\* C7: when no frame has been published for 2 s, ensure_camera_fresh with
\* force=False performs a real refresh, whenever the previous refresh was.
C7_StalledCaptureForcesRefresh ==
    [][\A c \in CamCallers :
         ( /\ StepAt(c, "r_lock")
           /\ caller[c].op = "ensure"
           /\ ~caller[c].force
           /\ caller[c].age # NoAge
           /\ caller[c].age >= 2 )
         => caller'[c].pc = "s_begin"]_vars

\* C8: ensure_camera_fresh calls refresh_camera exactly when the camera is
\* enabled and the frame age is None or exceeds max_stale; otherwise it
\* returns False and leaves the camera, the buffer and the last-refresh time
\* as they are.
C8_RefreshExactlyWhenStale ==
    [][\A c \in CamCallers :
         /\ StepAt(c, "e_enabled") =>
               /\ CameraUntouched
               /\ IF camera_enabled
                    THEN caller'[c].pc = "e_age"
                    ELSE caller'[c].pc = "idle" /\ caller'[c].ret = "False"
         /\ StepAt(c, "e_decide") =>
               /\ CameraUntouched
               /\ IF caller[c].age = NoAge
                       \/ 2 * caller[c].age > caller[c].max_stale
                    THEN caller'[c].pc = "r_lock"
                    ELSE caller'[c].pc = "idle" /\ caller'[c].ret = "False"
         /\ (caller[c].op = "ensure" /\ caller'[c].pc = "r_lock")
               => caller[c].pc \in {"e_decide", "r_lock"}]_vars

\* With the camera enabled and a frame in the buffer, a health check has
\* found the frame's age to be exactly max_stale.
C8_Witness ==
    \E c \in CamCallers :
        /\ caller[c].pc = "e_decide"
        /\ caller[c].age = 2
        /\ caller[c].max_stale = 4
        /\ camera_enabled
        /\ frame_buffer # 0

\* C9: after a refresh whose reinitialization failed, the next
\* ensure_camera_fresh attempts a refresh again.
C9_HealthCheckRetriesAfterFailedRefresh ==
    [][\A c \in CamCallers :
         (StepAt(c, "e_enabled") /\ reinit_failed)
            => caller'[c].pc = "e_age"]_vars

\* C10: get_frame returns the frame of the most recent publish and leaves it
\* in the buffer.
C10_GetFrameReturnsLatestWithoutConsuming ==
    [][\A c \in CamCallers :
         StepAt(c, "g_read") =>
            /\ caller'[c].ret = "frame"
            /\ caller'[c].frame = latest
            /\ frame_buffer' = frame_buffer
            /\ frame_timestamp' = frame_timestamp
            /\ latest' = latest]_vars

\* Two readers have obtained the second frame published, one after the other.
C10_Witness ==
    /\ reads = MaxReads
    /\ latest = 2
    /\ \A c \in CamCallers :
          /\ caller[c].pc = "idle"
          /\ caller[c].ret = "frame"
          /\ caller[c].frame = latest

\* C11: get_frame_age returns None exactly when no frame has been published
\* since the buffer was last cleared, and otherwise returns the time since
\* the most recent publish.
C11_FrameAgeTracksLastPublish ==
    [][\A c \in CamCallers :
         /\ StepAt(c, "e_age") =>
               ((caller'[c].pc = "e_decide" /\ caller'[c].age = NoAge)
                   <=> latest = 0)
         /\ StepAt(c, "e_age2") =>
               /\ caller'[c].pc = "e_decide"
               /\ caller'[c].age >= 0]_vars

\* C12: the frame and its timestamp are set and cleared as one pair:
\* frame_buffer is None exactly when frame_timestamp is None.
C12_FrameAndTimestampArePaired ==
    (frame_buffer = 0) <=> (frame_timestamp = NoTime)

\* C13: a get_frame() made next after init_camera() has returned True
\* returns a frame, not None.
C13_FrameAvailableAfterInit ==
    [][\A c \in CamCallers :
         ( /\ StepAt(c, "g_read")
           /\ caller[c].ret = "True"
           /\ \A d \in CamCallers \ {c} : caller[d] = IdleCaller )
         => caller'[c].frame # 0]_vars

\* Thread k comes back from camera.capture_array().
CaptureStep(k) == cap[k].pc = "capture" /\ cap'[k].pc # "capture"

\* The capture was slow or raised.
CaptureFailed(k) ==
    \/ cap'[k].pc = "loop"
    \/ cap'[k].consecutive_failures = cap[k].consecutive_failures + 1

\* What refresh_camera and ensure_camera_fresh read of the module's state.
RefresherInputs ==
    <<camera_enabled, frame_timestamp, last_refresh_time, refresh_lock>>

\* C14: every slow or failed capture increments the consecutive-failure
\* counter; when it reaches 5 the loop resets it to 0 and signals a refresh
\* request to the refresher, without refreshing the camera itself.
C14_FifthFailureRequestsRefresh ==
    [][\A k \in CaptureThreads :
         (CaptureStep(k) /\ CaptureFailed(k)) =>
            IF cap[k].consecutive_failures + 1 >= max_consecutive_failures
              THEN /\ cap'[k].consecutive_failures = 0
                   /\ UNCHANGED <<camera, capture_thread,
                                  capture_thread_running>>
                   /\ RefresherInputs' # RefresherInputs
              ELSE cap'[k].consecutive_failures
                      = cap[k].consecutive_failures + 1]_vars

\* C15: no capture call, the thread's first one included, ends the capture
\* thread: when it raises, the thread goes on to the loop's next iteration.
C15_CaptureErrorKeepsThreadAlive ==
    [][\A k \in CaptureThreads :
         (cap[k].pc \in {"test", "capture"} /\ cap'[k] # cap[k])
            => cap'[k].pc \in {"loop", "publish"}]_vars

\* C16: when stop_camera() returns, the capture loop has ended, the buffer
\* and the timestamp are cleared, camera is None and camera_enabled is
\* false, also when stopping or closing the device raised.
C16_StopReleasesCamera ==
    [][\A c \in CamCallers :
         (StepAt(c, "s_close") /\ caller[c].op = "stop") =>
            /\ \A k \in CaptureThreads : cap'[k].pc \in {"none", "dead"}
            /\ ~capture_thread_running'
            /\ frame_buffer' = 0
            /\ frame_timestamp' = NoTime
            /\ camera' = "None"
            /\ ~camera_enabled']_vars

(***************************************************************************)
(* Steps of the patrol API, as seen from outside.                          *)
(***************************************************************************)
\* Patrol caller c executes the statement at position pc.
PatrolStepAt(c, pc) == pcall[c].pc = pc /\ pcall'[c] # pcall[c]

\* The patrol's state as get_status reports it.
PatrolState ==
    <<patrol_active, interrupted, current_position_index, patrol_direction>>

\* C17: start_patrol called while Idle with the pan-tilt enabled and a
\* position defined returns True with the patrol active, index 0, direction
\* forward and interrupted false; with no position it returns False and
\* the patrol stays Idle.
C17_StartResetsPatrol ==
    [][\A c \in PatrolCallers :
         /\ (PatrolStepAt(c, "start") /\ patrol_positions = <<>>) =>
               /\ pcall'[c].ret = "False"
               /\ UNCHANGED PatrolState
         /\ (PatrolStepAt(c, "start_reset") /\ ~patrol_active) =>
               /\ current_position_index' = 0
               /\ patrol_direction' = 1
               /\ ~interrupted'
         /\ PatrolStepAt(c, "start_thread") =>
               /\ pcall'[c].ret = "True"
               /\ patrol_active']_vars

\* No patrol API call is in progress.
NoPatrolCall == \A c \in PatrolCallers : pcall[c].pc = "idle"

\* A resume timer that will still run resume_patrol.
TimerPending(tm) == tm.state \in {"created", "pending"}

\* C18: stop_patrol on an active patrol (Patrolling or Interrupted) returns
\* with the patrol Idle, active and interrupted both false, and with no
\* resume timer left pending; from then on, while no patrol function is
\* called, neither the passing of the resume delay nor a resume callback
\* that fires after the stop changes the state.
C18_StopLeavesIdle ==
    [][(\A c \in PatrolCallers :
          PatrolStepAt(c, "stop_cancel") =>
             /\ pcall'[c].ret = "True"
             /\ ~patrol_active'
             /\ ~interrupted'
             /\ \A i \in Timers : ~TimerPending(timers'[i]))
       /\ ((NoPatrolCall /\ ~patrol_active /\ pcall' = pcall) =>
             /\ ~patrol_active'
             /\ ~interrupted'
             /\ \A i \in Timers : ~TimerPending(timers'[i]))]_vars

\* stop_patrol has returned True on an interrupted patrol, the delay of the
\* timer it cancelled has elapsed, and the patrol is Idle.
C18_Witness ==
    /\ NoPatrolCall
    /\ pcall["p1"].ret = "True"
    /\ ~patrol_active
    /\ ~interrupted
    /\ \E i \in Timers :
          /\ timers[i].state = "cancelled"
          /\ timers[i].started
          /\ now >= timers[i].due
          /\ \A j \in Timers \ {i} : timers[j].state = "none"

\* A timer whose resume_patrol is still to come or is running, and whose
\* delay is not overdue.
ResumeOnItsWay(tm) ==
    \/ tm.state = "pending" /\ now' <= tm.due
    \/ tm.state = "running"

\* No resume callback other than that of the timer interrupt_resume_timer
\* names has run or is about to.
NoEarlierResume ==
    \A j \in Timers \ {interrupt_resume_timer} :
       timers[j].state \in {"none", "cancelled"}

\* C19: interrupt_patrol on an active patrol sets interrupted at once and
\* returns True with a resume timer due one resume delay later, the patrol
\* being Interrupted then unless the callback of an earlier timer ran.
\* While the patrol is Interrupted and no patrol function is being called
\* a timer is on its way, and its callback clears interrupted, leaving
\* patrol_active alone, no earlier than its due time and before the clock
\* passes it. interrupt_patrol on an Idle patrol returns False, makes no
\* timer and leaves the state as it is.
C19_InterruptResumesAfterDelay ==
    [][(\A c \in PatrolCallers :
          /\ (PatrolStepAt(c, "interrupt") /\ ~patrol_active) =>
                /\ pcall'[c].ret = "False"
                /\ UNCHANGED <<PatrolState, timers, interrupt_resume_timer>>
          /\ (PatrolStepAt(c, "interrupt") /\ patrol_active) =>
                pcall'[c].pc = "interrupt_set"
          /\ PatrolStepAt(c, "interrupt_set") => interrupted'
          /\ PatrolStepAt(c, "interrupt_start") =>
                /\ pcall'[c].ret = "True"
                /\ timers'[interrupt_resume_timer].state = "pending"
                /\ timers'[interrupt_resume_timer].due
                      = now + interrupt_resume_delay
                /\ NoEarlierResume => (patrol_active' /\ interrupted'))
       /\ ((patrol_active' /\ interrupted' /\ NoPatrolCall') =>
             \E i \in Timers : ResumeOnItsWay(timers'[i]))
       /\ (\A i \in Timers :
             (timers[i].state = "running" /\ timers'[i].state = "done") =>
                /\ now >= timers[i].due
                /\ ~interrupted'
                /\ UNCHANGED patrol_active)]_vars

\* One start_patrol and one interrupt_patrol were called; the timer has run
\* resume_patrol at its due time and the patrol is Patrolling again.
C19_Witness ==
    /\ NoPatrolCall
    /\ pops = 2
    /\ patrol_active
    /\ ~interrupted
    /\ \E i \in Timers :
          /\ timers[i].state = "done"
          /\ now = timers[i].due

\* C20: at any time at most one resume timer is pending, also when
\* interrupt_patrol calls race: each call cancels the timer scheduled
\* before it schedules its own.
C20_AtMostOneResumeTimerPending ==
    Cardinality({i \in Timers : timers[i].state = "pending"}) <= 1

\* The index of the n-th position of the back-and-forth route through a
\* list of len positions: 0, 1, .., len-1, len-2, .., 1, 0, 1, ..
RouteIndex(n, len) ==
    IF len = 1 THEN 0
    ELSE LET t == (n - 1) % (2 * len - 2)
         IN IF t < len THEN t ELSE 2 * len - 2 - t

\* C21: with a fixed list of positions and no interruption the patrol loop
\* moves through the list back and forth, turning at the last position to
\* the second-to-last and at the first to the second, never from the last
\* straight to the first: for [A,B,C] its first 7 moves go to
\* A,B,C,B,A,B,C.
C21_BackAndForthRoute ==
    /\ \A n \in 1..Len(visited) :
          visited[n] =
             patrol_positions[RouteIndex(n, Len(patrol_positions)) + 1]
    /\ (Len(patrol_positions) = 3 /\ Len(visited) = 7) =>
          LET A == patrol_positions[1]
              B == patrol_positions[2]
              C == patrol_positions[3]
          IN visited = <<A, B, C, B, A, B, C>>

\* The loop has made 7 moves through a list of three positions.
C21_Witness ==
    /\ Len(patrol_positions) = 3
    /\ Len(visited) = 7

\* C22: deleting positions while the patrol is active never ends the patrol
\* loop: as long as a position remains, the read of
\* positions[current_position_index] finds the index inside the list and
\* the loop goes on.
C22_DeleteKeepsLoopRunning ==
    [][\A k \in PatrolLoops :
         (loops[k].pc = "move" /\ patrol_positions # <<>>) =>
            loops'[k].pc # "done"]_vars

\* C23: the ids of the list are pairwise distinct, and each id add_position
\* assigns is greater than every id it assigned before, so that the id of
\* a deleted position is not given out again.
C23_IdsNeverReused ==
    [][/\ \A i, j \in DOMAIN patrol_positions' :
             i # j => patrol_positions'[i] # patrol_positions'[j]
       /\ assigned' # assigned =>
             \A n \in DOMAIN assigned :
                assigned'[Len(assigned')] > assigned[n]]_vars

\* C30: after any sequence of move_to, home and track_object calls the
\* recorded pan and tilt lie within pan_limits and tilt_limits, and so does
\* every angle a move sent to the servos.
C30_AnglesWithinLimits ==
    /\ pan_limits[1] * Milli <= current_pan
    /\ current_pan <= pan_limits[2] * Milli
    /\ tilt_limits[1] * Milli <= current_tilt
    /\ current_tilt <= tilt_limits[2] * Milli
    /\ \A a \in servo.pan : pan_limits[1] <= a /\ a <= pan_limits[2]
    /\ \A a \in servo.tilt : tilt_limits[1] <= a /\ a <= tilt_limits[2]

\* A move was asked to go beyond both upper limits (no request names a
\* limit itself) and ended on them, in several steps.
C30_Witness ==
    /\ current_pan = pan_limits[2] * Milli
    /\ current_tilt = tilt_limits[2] * Milli
    /\ pan_limits[2] \in servo.pan
    /\ Cardinality(servo.pan) > 1

\* pantilt_controller.track_object on a box: no move inside the deadzone on
\* both axes, otherwise one move to the clamped current angle plus offset
\* times tracking_speed, the tilt inverted.
TrackObjectKeepsDeadzone ==
    [][(ctl.pc = "track" /\ ctl'.pc = "idle") =>
         LET x == OffsetX(ctl.bbox)
             y == OffsetY(ctl.bbox)
         IN IF InDeadzone(x) /\ InDeadzone(y)
              THEN /\ move_calls' = move_calls
                   /\ current_pan' = current_pan
                   /\ current_tilt' = current_tilt
              ELSE /\ move_calls' = move_calls + 1
                   /\ ctl'.ret = "True" =>
                        /\ current_pan' =
                             Max(pan_limits[1] * Milli,
                                 Min(pan_limits[2] * Milli,
                                     current_pan
                                       + (x.num * tracking_speed * Milli) \div x.den))
                        /\ current_tilt' =
                             Max(tilt_limits[1] * Milli,
                                 Min(tilt_limits[2] * Milli,
                                     current_tilt
                                       - (y.num * tracking_speed * Milli) \div y.den))]_vars

\* C24: tracking a box whose centre is within the deadzone (0.1 of the
\* normalized offset on both axes) issues no move command and leaves the
\* pan-tilt where it is, here for the tracking call the detection handler
\* makes on the first accepted detection.
C24_DeadzoneIssuesNoMove ==
    [][(det.pc = "track" /\ det'.pc = "idle" /\ det'.tracked # <<>>
        /\ InDeadzone(OffsetX(det'.tracked[1]))
        /\ InDeadzone(OffsetY(det'.tracked[1])))
       => (/\ move_calls' = move_calls
           /\ current_pan' = current_pan
           /\ current_tilt' = current_tilt)]_vars

\* C25: a track call that returns True, made while the position patrol is
\* Patrolling, leaves the patrol Interrupted with an auto-resume timer
\* pending.
C25_TrackInterruptsPatrol ==
    [][(ctl.pc = "track" /\ ctl'.pc = "idle" /\ ctl'.ret = "True"
        /\ patrol_active /\ ~interrupted)
       => (/\ interrupted'
           /\ \E i \in Timers : timers'[i].state = "pending")]_vars

\* No detection of the list has a class of the allow-list.
NoneOfInterest(detections) ==
    \A i \in DOMAIN detections :
        detections[i].class_name \notin classes_of_interest

\* C26: a pass of the detection loop that ran detection and got zero
\* detections, or none whose class is in the allow-list, ends with the
\* tracking target None and has issued no move command, whatever target
\* earlier passes had set.
C26_NoDetectionClearsTarget ==
    [][(det.pc # "idle" /\ det'.pc = "idle" /\ NoneOfInterest(det'.result))
       => (/\ tracking_target' = <<>>
           /\ det'.tracked = <<>>
           /\ det'.moves = 0
           /\ move_calls' = move_calls)]_vars

\* A pass has ended on detections outside the allow-list, after an earlier
\* pass had set a target and moved the pan-tilt to it.
C26_Witness ==
    /\ det.pc = "idle"
    /\ det.frame
    /\ det.result # <<>>
    /\ NoneOfInterest(det.result)
    /\ move_calls > 0
    /\ tracking_target = <<>>

\* C27: an inference failure never stops detection for the rest of the run:
\* whenever the loop calls detect_objects on a frame while the inference
\* service can be reached, the frame is posted to the service.
C27_FailureNeverDisablesDetection ==
    [][(det.pc = "detect" /\ det'.pc # "detect" /\ service_up)
       => (posted' = posted + 1)]_vars

\* C28: what detect_objects returns for a request that failed or timed out
\* differs from what it returns for a request the service answered with
\* zero detections.
C28_FailureDistinctFromNoDetections ==
    \A a, b \in returned :
        (a.failed /\ ~b.failed) => a.result # b.result

\* The places of a list whose detection has a class of the allow-list.
OfInterest(detections) ==
    {i \in DOMAIN detections :
        detections[i].class_name \in classes_of_interest}

\* C29: a pass of the detection loop on a frame that got detections of the
\* allow-list ends with one record persisted for each of them and none for
\* the others, and, with tracking enabled, with the tracking call made
\* once, on the bounding box of the first accepted detection.
C29_AcceptedDetectionsProcessed ==
    [][(det.pc # "idle" /\ det'.pc = "idle" /\ det'.frame
        /\ OfInterest(det'.result) # {})
       => LET accepted == OfInterest(det'.result)
              first == CHOOSE i \in accepted : \A j \in accepted : i <= j
          IN /\ det'.saved = Cardinality(accepted)
             /\ Len(records') = Len(records) + det'.saved - det.saved
             /\ tracking_enabled =>
                    det'.tracked = <<det'.result[first].bbox>>]_vars

\* C31: over a fixed list of n >= 1 positions the index stays in 0..n-1 and
\* the direction is 1 or -1 after any number of passes of the loop; with
\* one position every move goes to it, with two the moves alternate
\* between the first and the second.
C31_IndexStaysInList ==
    LET n == Len(patrol_positions)
    IN /\ current_position_index \in 0..(n - 1)
       /\ patrol_direction \in {1, -1}
       /\ n = 1 => \A i \in 1..Len(visited) : visited[i] = patrol_positions[1]
       /\ n = 2 => \A i \in 1..Len(visited) :
                      visited[i] = patrol_positions[IF i % 2 = 1 THEN 1 ELSE 2]

\* The loop has turned around at both ends of a list of two positions, and
\* is about to move a fifth time.
C31_Witness ==
    /\ Len(patrol_positions) = 2
    /\ Len(visited) = 4
    /\ patrol_direction = -1
    /\ current_position_index = 0

\* A patrol thread started after thread k exists.
LaterLoop(k) == \E k2 \in PatrolLoops : k2 > k /\ loops[k2].pc # "none"

\* C32: at most one patrol thread patrols: once a later start_patrol has
\* started a new thread, a thread started earlier neither passes the test
\* of `while patrol_active` again nor writes the index or the direction
\* the new start has reset.
C32_OnePatrolLoop ==
    [][\A k \in PatrolLoops :
         (LaterLoop(k) /\ loops'[k] # loops[k]) =>
            (/\ loops'[k].pc # "move"
             /\ UNCHANGED <<current_position_index, patrol_direction>>)]_vars

\* A capture thread started after thread k exists.
LaterThread(k) == \E k2 \in CaptureThreads : k2 > k /\ cap[k2].pc # "none"

\* stop_camera has told the capture thread to stop, and no call of it is
\* still on its way to the clear of the buffer or to the close.
StopDone ==
    /\ ~capture_thread_running
    /\ \A c \in CamCallers : caller[c].pc \notin {"s_join", "s_clear", "s_close"}

\* C33: at most one capture thread publishes: a thread stores a frame only
\* while no stop_camera has completed since and no later capture thread
\* was started, and a thread does not go on to another capture once a
\* later thread was started.
C33_OneCaptureThreadPublishes ==
    [][\A k \in CaptureThreads :
         /\ (cap[k].pc = "publish" /\ cap'[k].pc # "publish")
               => (~StopDone /\ ~LaterThread(k))
         /\ (cap[k].pc = "loop" /\ cap'[k].pc = "capture")
               => ~LaterThread(k)]_vars

\* Patrol thread k calls move_to.
LoopMoves(k) == loops[k].pc = "move" /\ loops'[k].pc = "dwell"

\* C34: the patrol loop calls move_to neither while the patrol is
\* Interrupted and interrupt_patrol has returned, nor once stop_patrol has
\* returned and left the patrol inactive.
C34_NoMoveWhileInterruptedOrStopped ==
    [][\A k \in PatrolLoops :
         LoopMoves(k) =>
            /\ ~(patrol_active /\ interrupted /\ InCall("interrupt") = {})
            /\ ~(~patrol_active /\ InCall("stop") = {})]_vars

\* C35: whenever interrupted is true and no patrol function is in the
\* middle of a call, the patrol is active and a resume timer is on its way:
\* waiting for its delay, or running resume_patrol.
C35_InterruptedHasResumePending ==
    (interrupted /\ \A c \in PatrolCallers : pcall[c].pc = "idle") =>
        /\ patrol_active
        /\ \E i \in Timers : timers[i].state \in {"pending", "running"}

\* C36: a trigger that passed the cooldown gate and whose open_garage
\* returns True sets the last-fired timestamp to a clock reading of that
\* trigger and emits exactly one garage-opened notification; and no
\* garage-opened notification is emitted in a step that is not the
\* successful return of a trigger.
C36_SuccessStampsAndNotifiesOnce ==
    [][/\ \A t \in Callers :
            SuccessStep(t) =>
               /\ last_command_time' >= g[t].gate_time
               /\ last_command_time' <= now'
               /\ notifications' = Append(notifications, "garage_opened")
       /\ notifications' # notifications =>
            \E t \in Callers : SuccessStep(t)]_vars

\* C37: once the position list is empty while the patrol is active, the
\* patrol loop issues no further move and its next step ends it without
\* raising, with patrol_active set to False.
C37_EmptyListEndsPatrol ==
    [][\A k \in PatrolLoops :
         (/\ patrol_positions = <<>>
          /\ patrol_active
          /\ loops'[k] # loops[k]) =>
            (/\ loops'[k].pc # "dwell"
             /\ (loops[k].pc \in {"top", "move"}) =>
                   (loops'[k].pc = "done" /\ ~patrol_active'))]_vars

\* Who is inside a `with frame_buffer_lock:` block.
InFrameLock(c) == caller[c].pc \in LockedPcs

\* refresh_lock is held only by a caller inside refresh_camera's `with`
\* block, and frame_buffer_lock by one thread at a time, which is then not
\* at the wait for refresh_lock, at a sleep or at the join.
LocksHeldInside ==
    /\ \A c \in CamCallers :
          refresh_lock = c =>
             (/\ caller[c].op = "refresh"
              /\ caller[c].pc \notin {"idle", "r_lock"})
    /\ \A c \in CamCallers :
          InFrameLock(c) =>
             (/\ caller[c].pc \notin {"r_lock", "r_sleep", "i_warm", "s_join"}
              /\ \A k \in CaptureThreads : cap[k].pc # "p_locked"
              /\ \A c2 \in CamCallers \ {c} : ~InFrameLock(c2))
    /\ \A k \in CaptureThreads :
          cap[k].pc = "p_locked" =>
             \A k2 \in CaptureThreads \ {k} : cap[k2].pc # "p_locked"

\* C38: the capture loop, the frame readers, ensure_camera_fresh,
\* refresh_camera and stop_camera never deadlock. frame_buffer_lock is never
\* held by a thread that waits for refresh_lock, sleeps or joins, and no
\* time passes while it is held, so a refresh keeps publication and reads
\* waiting for the buffer clear only; every call returns, a refresh_camera
\* call with refresh_lock released, and every frame waiting to be published
\* is published.
C38_NoDeadlock ==
    /\ []LocksHeldInside
    /\ [][(~FrameLockFree) => (now' = now)]_vars
    /\ \A c \in CamCallers :
          (caller[c].pc # "idle") ~>
             (caller[c].pc = "idle" /\ refresh_lock # c)
    /\ \A k \in CaptureThreads :
          (cap[k].pc = "publish") ~> (cap[k].pc = "loop")

\* A refresh holds both locks for its buffer clear while the capture thread
\* has a frame to publish.
C38_Witness ==
    \E c \in CamCallers, k \in CaptureThreads :
       /\ refresh_lock = c
       /\ caller[c].pc = "r_locked"
       /\ cap[k].pc = "publish"

\* capture_array() has returned a frame to thread k in this step.
FrameReturned(k) == CaptureStep(k) /\ cap'[k].frame = captured'

\* C39: every capture of the running loop that returns a frame is followed
\* by the publication of that frame, whether the capture was fast or slow
\* and whatever the consecutive-failure counter: the thread goes on to store
\* it, and what it stores is the frame it captured. A capture that is
\* published with the counter not incremented (a fast one) leaves it at 0.
C39_ReturnedFrameIsPublished ==
    [][\A k \in CaptureThreads :
         /\ FrameReturned(k) =>
              (/\ cap'[k].pc = "publish"
               /\ (cap'[k].consecutive_failures
                     # cap[k].consecutive_failures + 1) =>
                        (cap'[k].consecutive_failures = 0))
         /\ (cap[k].pc = "publish" /\ cap'[k].pc # "publish") =>
              (frame_buffer' = cap[k].frame)]_vars

====
